---- MODULE Spec2Model ----
(***************************************************************************)
(* Model of gwillem/lerobot-go: the teleoperation Controller (pkg/teleop,  *)
(* kept in src/pkg/robot/config.go lines 65-284) with its state and log    *)
(* channels, and the per-motor calibration mapping (pkg/robot,             *)
(* src/pkg/robot/calibration.go).                                          *)
(*                                                                         *)
(* Spec     the controller: two goroutines calling Start, one calling      *)
(*          Close, one calling cancel, and an observer receiving from      *)
(*          States() and Logs().                                           *)
(* SpecCal  Normalize and Denormalize applied to calibrations and inputs   *)
(*          drawn from bounded sets.                                       *)
(* SpecStep one tick's leader reading on its way to the follower targets.  *)
(* SpecRec  the calibration recorder: seeding, ticks, quit.                *)
(* SpecLookup  Calibration.ByID and Calibration.MotorIDs.                  *)
(* SpecCmd  the teleoperate command up to teleop.NewController.            *)
(* SpecHz   the controller of Spec, constructed with each Config.Hz.       *)
(* SpecTicks  the data of one loop's ticks: read, mirror, write, State.    *)
(* SpecNew  NewController: the two buses opened, or its error.             *)
(* SpecExit the teleoperate command's exit: cancel, then Close.            *)
(* SpecRoles  the controller of Spec, the leader's torque on or off.       *)
(* SpecArm  one tick from the leader's bus to the follower's bus.          *)
(***************************************************************************)
EXTENDS Integers, Sequences, FiniteSets, TLC

\* Calibrations of the model: |RangeMin| <= MinSpan and
\* -MinSpan <= RangeMax - RangeMin <= MaxWidth.
MinSpan == 1
MaxWidth == 9

\* Raw positions reach Over units beyond either end of the range.
Over == 2

\* Positions a leader reading holds are the whole numbers -PosMax..PosMax.
PosMax == 1

\* Servo IDs of the calibrations looked up are 1..IdMax.
IdMax == 2

\* Inputs of Denormalize are the whole numbers -NormMax..NormMax.
NormMax == 104

\* for raw := cal.RangeMin; raw <= cal.RangeMax; raw += 100
RawStep == 100

\* make(chan State, 1)
StateCap == 1

\* make(chan string, 10)
LogCap == 10

\* NewController: cfg.Hz = 60 for a non-positive cfg.Hz
DefaultHz == 60

\* the teleoperate command's --hz default
FlagHz == 60

\* The goroutines that call Controller.Start, each once.
Starters == {"s1", "s2"}

VARIABLES
    running,        \* Controller.running
    stateCh,        \* Controller.stateCh, oldest first
    logCh,          \* Controller.logCh, oldest first
    pc,             \* position of each Start call
    pending,        \* the State a Start call is publishing in sendState
    cpc,            \* position of the Close call
    ctxDone,        \* ctx.Done() is closed
    leaderOpen,     \* leader.bus is open
    followerOpen,   \* follower.bus is open
    followerTorque, \* follower torque is enabled
    leaderTorque,   \* leader torque is enabled
    obsLast,        \* Timestamp of the State the observer received last
    overlapped,     \* history: a Start was accepted while another loop was live
    closeErrs,      \* Close: len(errs) > 0
    closeRet,       \* Close: "none" until it returns, then "nil" or "error"
    cal,            \* the MotorCalibration Normalize and Denormalize are called on
    raw,            \* the argument of Normalize
    fused,          \* the build fuses the multiply and subtract of Normalize
    norm,           \* the result of Normalize, the argument of Denormalize
    back,           \* the result of Denormalize
    calPc,          \* which of the two has been applied
    positions,      \* step: the map leader.ReadPositions returned
    mirror,         \* Controller.mirror
    followerPositions, \* step: the map handed to follower.WritePositions
    stepPc,         \* step: how far the tick's data has got
    written,        \* the map follower.WritePositions was called with last
    published,      \* the State step handed to sendState last
    stepIo,         \* history: what the step in progress has done so far
    busRead,        \* what a.group.Positions returned to ReadPositions
    busWrites,      \* the PositionMaps handed to a.group.SetPositions, oldest first
    curPositions,   \* calibrationModel.curPositions
    minPositions,   \* calibrationModel.minPositions
    maxPositions,   \* calibrationModel.maxPositions
    seen,           \* history: per motor, the seed and the samples read without error
    recPc,          \* calibrateArm: "off", "running", "quit" (quitting set), "built"
    lastRead,       \* history: what servo.Position returned last, per motor followed
    recCal,         \* calibrateArm: calibration, as built after the TUI
    calibration,    \* the Calibration ByID and MotorIDs are called on
    lookupId,       \* the argument of ByID
    byId,           \* the result of ByID
    ids,            \* the result of MotorIDs
    lookPc,         \* which of the two has been called
    cfg,            \* the teleoperate command: what LoadConfig returned
    cmdPc,          \* the teleoperate command: how Execute went on
    cfgHz,          \* Config.Hz as handed to NewController
    hz,             \* Controller.hz
    ctorPc          \* NewController: how far the construction has got

\* Controller.running, the callers of Close and cancel, the history flag
lifeVars == <<running, cpc, ctxDone, overlapped>>

\* the two robot.Arm values
armVars == <<leaderOpen, followerOpen, followerTorque, leaderTorque>>

\* the state channel, the States on their way into it, the observer's last State
chanVars == <<stateCh, pending, obsLast>>

\* Close's errs and its result
closeVars == <<closeErrs, closeRet>>

\* the controller
ctlVars == <<lifeVars, armVars, chanVars, closeVars, pc, logCh>>

\* the calibration calls
calVars == <<cal, raw, fused, norm, back, calPc>>

\* one tick's positions on their way through step
stepVars ==
    <<positions, mirror, followerPositions, stepPc, written, published, stepIo,
      busRead, busWrites>>

\* the calibration recorder
recVars == <<curPositions, minPositions, maxPositions, seen, recPc, lastRead, recCal>>

\* the calls of ByID and MotorIDs
lookVars == <<calibration, lookupId, byId, ids, lookPc>>

\* the teleoperate command up to the controller's construction
cmdVars == <<cfg, cmdPc>>

\* the controller's frequency and its construction, written by NewController only
hzVars == <<cfgHz, hz, ctorPc>>

\* what no step of Start, Close or an observer writes
libVars == <<stepVars, recVars, lookVars, cmdVars, hzVars>>

vars == <<ctlVars, calVars, libVars>>

\* ------------------------------------------------------------------------
\* float64 arithmetic (IEEE 754 binary64, round to nearest even), as used by
\* Normalize and Denormalize.  TLC's integers have 32 bits, so a significand
\* is a natural number of any size: limbs base 2^15, least significant first,
\* no leading zero limb.  Exponents are not bounded: no value of the model
\* comes near the ends of the binary64 range.

\* bits of a limb
LimbBits == 15

\* 2^LimbBits
Limb == 32768

\* bits of a float64 significand
MantBits == 53

RECURSIVE Pow2(_)
Pow2(n) == IF n = 0 THEN 1 ELSE 2 * Pow2(n - 1)

RECURSIVE BitLen(_)
BitLen(n) == IF n = 0 THEN 0 ELSE 1 + BitLen(n \div 2)

RECURSIVE Zeros(_)
Zeros(k) == IF k = 0 THEN <<>> ELSE <<0>> \o Zeros(k - 1)

RECURSIVE BigTrim(_)
BigTrim(a) ==
    IF a = <<>> THEN a
    ELSE IF a[Len(a)] = 0 THEN BigTrim(SubSeq(a, 1, Len(a) - 1)) ELSE a

RECURSIVE BigFromNat(_)
BigFromNat(n) == IF n = 0 THEN <<>> ELSE <<n % Limb>> \o BigFromNat(n \div Limb)

RECURSIVE BigToNat(_)
BigToNat(a) == IF a = <<>> THEN 0 ELSE a[1] + Limb * BigToNat(Tail(a))

RECURSIVE BigAddC(_, _, _)
BigAddC(a, b, c) ==
    IF a = <<>> /\ b = <<>> THEN (IF c = 0 THEN <<>> ELSE <<c>>)
    ELSE LET x == (IF a = <<>> THEN 0 ELSE a[1]) + (IF b = <<>> THEN 0 ELSE b[1]) + c
         IN  <<x % Limb>> \o BigAddC(IF a = <<>> THEN a ELSE Tail(a),
                                     IF b = <<>> THEN b ELSE Tail(b),
                                     x \div Limb)

BigAdd(a, b) == BigAddC(a, b, 0)

RECURSIVE BigSubB(_, _, _)
BigSubB(a, b, br) ==
    IF a = <<>> THEN <<>>
    ELSE LET x == a[1] - (IF b = <<>> THEN 0 ELSE b[1]) - br
         IN  <<x % Limb>> \o BigSubB(Tail(a), IF b = <<>> THEN b ELSE Tail(b),
                                     IF x < 0 THEN 1 ELSE 0)

\* a - b for a >= b
BigSub(a, b) == BigTrim(BigSubB(a, b, 0))

RECURSIVE BigCmp(_, _)
BigCmp(a, b) ==
    IF Len(a) # Len(b) THEN (IF Len(a) < Len(b) THEN -1 ELSE 1)
    ELSE IF a = <<>> THEN 0
    ELSE IF a[Len(a)] # b[Len(b)] THEN (IF a[Len(a)] < b[Len(b)] THEN -1 ELSE 1)
    ELSE BigCmp(SubSeq(a, 1, Len(a) - 1), SubSeq(b, 1, Len(b) - 1))

RECURSIVE BigMulC(_, _, _)
BigMulC(a, d, c) ==
    IF a = <<>> THEN (IF c = 0 THEN <<>> ELSE <<c>>)
    ELSE LET x == a[1] * d + c
         IN  <<x % Limb>> \o BigMulC(Tail(a), d, x \div Limb)

\* a * d for a limb d
BigMulSmall(a, d) == BigTrim(BigMulC(a, d, 0))

RECURSIVE BigMul(_, _)
BigMul(a, b) ==
    IF a = <<>> \/ b = <<>> THEN <<>>
    ELSE LET rest == BigMul(a, Tail(b))
         IN  BigAdd(BigMulSmall(a, b[1]), IF rest = <<>> THEN <<>> ELSE <<0>> \o rest)

RECURSIVE BigDivR(_, _, _)
BigDivR(a, d, r) ==
    IF a = <<>> THEN [q |-> <<>>, r |-> r]
    ELSE LET x == r * Limb + a[Len(a)]
             rest == BigDivR(SubSeq(a, 1, Len(a) - 1), d, x % d)
         IN  [q |-> Append(rest.q, x \div d), r |-> rest.r]

\* floor(a / d) and a mod d for 0 < d < Limb
BigDivSmall(a, d) == LET qr == BigDivR(a, d, 0) IN [q |-> BigTrim(qr.q), r |-> qr.r]

BigBitLen(a) == IF a = <<>> THEN 0 ELSE LimbBits * (Len(a) - 1) + BitLen(a[Len(a)])

BigShl(a, n) ==
    IF a = <<>> THEN <<>>
    ELSE Zeros(n \div LimbBits) \o BigMulSmall(a, Pow2(n % LimbBits))

BigShr(a, n) ==
    LET k == n \div LimbBits
    IN  IF k >= Len(a) THEN <<>>
        ELSE BigDivSmall(SubSeq(a, k + 1, Len(a)), Pow2(n % LimbBits)).q

RECURSIVE TrailingZeros(_)
TrailingZeros(n) == IF n % 2 = 1 THEN 0 ELSE 1 + TrailingZeros(n \div 2)

RECURSIVE BigTrailingZeros(_)
BigTrailingZeros(a) ==
    IF a[1] = 0 THEN LimbBits + BigTrailingZeros(Tail(a)) ELSE TrailingZeros(a[1])

\* An exact dyadic value is (-1)^neg * m * 2^e; a float64 is one whose m has
\* exactly MantBits bits, or zero (m = <<>>, e = 0; the sign of zero is not kept).
FZero == [neg |-> FALSE, m |-> <<>>, e |-> 0]

\* round-to-nearest-even of (-1)^neg * (n / d) * 2^e to 53 bits, 0 < d < Limb
Round(neg, n, d, e) ==
    IF n = <<>> THEN FZero
    ELSE LET have == BigBitLen(n)
             need == MantBits + 2 + BitLen(d)
             k == IF have >= need THEN 0 ELSE need - have
             qr == BigDivSmall(BigShl(n, k), d)
             s == BigBitLen(qr.q) - MantBits
             hi == BigShr(qr.q, s)
             low == BigSub(qr.q, BigShl(hi, s))
             c == BigCmp(low, BigShl(<<1>>, s - 1))
             up == c = 1 \/ (c = 0 /\ (qr.r # 0 \/ hi[1] % 2 = 1))
             m2 == IF up THEN BigAdd(hi, <<1>>) ELSE hi
             carry == BigBitLen(m2) > MantBits
         IN  [neg |-> neg,
              m |-> IF carry THEN BigShr(m2, 1) ELSE m2,
              e |-> e - k + s + (IF carry THEN 1 ELSE 0)]

XMul(x, y) == [neg |-> x.neg # y.neg, m |-> BigMul(x.m, y.m), e |-> x.e + y.e]

XNeg(x) == IF x.m = <<>> THEN x ELSE [x EXCEPT !.neg = ~x.neg]

XAdd(x, y) ==
    IF x.m = <<>> THEN y
    ELSE IF y.m = <<>> THEN x
    ELSE LET e0 == IF x.e < y.e THEN x.e ELSE y.e
             a == BigShl(x.m, x.e - e0)
             b == BigShl(y.m, y.e - e0)
             c == BigCmp(a, b)
         IN  IF x.neg = y.neg THEN [neg |-> x.neg, m |-> BigAdd(a, b), e |-> e0]
             ELSE IF c = 0 THEN FZero
             ELSE IF c = 1 THEN [neg |-> x.neg, m |-> BigSub(a, b), e |-> e0]
             ELSE [neg |-> y.neg, m |-> BigSub(b, a), e |-> e0]

\* sign of x: -1, 0, 1
XSign(x) == IF x.m = <<>> THEN 0 ELSE IF x.neg THEN -1 ELSE 1

\* sign of x - y
XCmp(x, y) == XSign(XAdd(x, XNeg(y)))

XInt(n) == IF n = 0 THEN FZero
           ELSE [neg |-> n < 0, m |-> BigFromNat(IF n < 0 THEN -n ELSE n), e |-> 0]

Rnd(x) == Round(x.neg, x.m, 1, x.e)

\* float64(n)
FFromInt(n) == Rnd(XInt(n))

FAdd(x, y) == Rnd(XAdd(x, y))
FSub(x, y) == Rnd(XAdd(x, XNeg(y)))
FMul(x, y) == Rnd(XMul(x, y))
FMA(x, y, z) == Rnd(XAdd(XMul(x, y), z))

\* x / y for y whose significand is odd * 2^t with odd < Limb
FDiv(x, y) ==
    LET t == BigTrailingZeros(y.m)
        d == BigToNat(BigShr(y.m, t))
    IN  Round(x.neg # y.neg, x.m, d, x.e - y.e - t)

\* int(x): toward zero
FTrunc(x) ==
    LET mag == IF x.e >= 0 THEN BigToNat(BigShl(x.m, x.e))
               ELSE BigToNat(BigShr(x.m, 0 - x.e))
    IN  IF x.neg THEN 0 - mag ELSE mag

\* ------------------------------------------------------------------------
\* MotorCalibration.Normalize / Denormalize

\* Normalize that divides raw itself, not its offset from RangeMin, by the range
NormalizeFromZero(c, rawPos, fusedBuild) ==
    LET rangeSize == FFromInt(c.RangeMax - c.RangeMin)
    IN  IF rangeSize = FZero THEN FZero
        ELSE LET q == FDiv(FFromInt(rawPos), rangeSize)
             IN  IF fusedBuild THEN FMA(q, FFromInt(200), FFromInt(-100))
                 ELSE FSub(FMul(q, FFromInt(200)), FFromInt(100))

\* Normalize onto -1..1
NormalizeUnit(c, rawPos, fusedBuild) ==
    LET rangeSize == FFromInt(c.RangeMax - c.RangeMin)
    IN  IF rangeSize = FZero THEN FZero
        ELSE LET q == FDiv(FFromInt(rawPos - c.RangeMin), rangeSize)
             IN  IF fusedBuild THEN FMA(q, FFromInt(2), FFromInt(-1))
                 ELSE FSub(FMul(q, FFromInt(2)), FFromInt(1))

\* the NaN or infinity a float64 division by zero yields
NotFinite == [neg |-> FALSE, m |-> <<>>, e |-> 1]

\* Normalize without the test of rangeSize == 0
NormalizeUnguarded(c, rawPos, fusedBuild) ==
    LET rangeSize == FFromInt(c.RangeMax - c.RangeMin)
    IN  IF rangeSize = FZero THEN NotFinite
        ELSE LET q == FDiv(FFromInt(rawPos - c.RangeMin), rangeSize)
             IN  IF fusedBuild THEN FMA(q, FFromInt(200), FFromInt(-100))
                 ELSE FSub(FMul(q, FFromInt(200)), FFromInt(100))

\* Normalize that clamps its result to -100..100
NormalizeClamped(c, rawPos, fusedBuild) ==
    LET rangeSize == FFromInt(c.RangeMax - c.RangeMin)
    IN  IF rangeSize = FZero THEN FZero
        ELSE LET q == FDiv(FFromInt(rawPos - c.RangeMin), rangeSize)
                 v == IF fusedBuild THEN FMA(q, FFromInt(200), FFromInt(-100))
                      ELSE FSub(FMul(q, FFromInt(200)), FFromInt(100))
             IN  IF XCmp(v, XInt(-100)) < 0 THEN FFromInt(-100)
                 ELSE IF XCmp(v, XInt(100)) > 0 THEN FFromInt(100)
                 ELSE v

\* func (c MotorCalibration) Normalize(raw int) float64.  fusedBuild: the build
\* fuses x*y - z into one rounding, as the Go specification allows (arm64 does).
Normalize(c, rawPos, fusedBuild) ==
    LET rangeSize == FFromInt(c.RangeMax - c.RangeMin)
    IN  IF rangeSize = FZero THEN FZero
        ELSE LET q == FDiv(FFromInt(rawPos - c.RangeMin), rangeSize)
             IN  IF fusedBuild THEN FMA(q, FFromInt(200), FFromInt(-100))
                 ELSE FSub(FMul(q, FFromInt(200)), FFromInt(100))

\* Denormalize: (norm+100)/200*rangeSize, before the conversion to int
DenormProduct(c, n) ==
    FMul(FDiv(FAdd(n, FFromInt(100)), FFromInt(200)), FFromInt(c.RangeMax - c.RangeMin))

\* Denormalize that adds RangeMin before the conversion to int
DenormalizeTruncSum(c, n) == FTrunc(FAdd(DenormProduct(c, n), FFromInt(c.RangeMin)))

\* func (c MotorCalibration) Denormalize(norm float64) int
Denormalize(c, n) == FTrunc(DenormProduct(c, n)) + c.RangeMin

\* ------------------------------------------------------------------------
\* State values.  A Timestamp is kept as its rank among the Timestamps still
\* held by the observer, the channel or a sendState in progress: the program
\* only ever orders them, and ranks keep the order.  0 is "no State".

NoState == [seq |-> 0, err |-> FALSE, pos |-> FALSE]

\* State{Positions: ..., Timestamp: time.Now()} / State{Error: err, Timestamp: time.Now()}
\* err: Error is set; pos: Positions is set
MkState(t, isErr) == [seq |-> t, err |-> isErr, pos |-> ~isErr]

Held(o, ch, pd) ==
    ({o} \cup {ch[i].seq : i \in 1..Len(ch)} \cup {pd[p].seq : p \in Starters}) \ {0}

\* time.Now(): later than every Timestamp taken before
Now == Cardinality(Held(obsLast, stateCh, pending)) + 1

Rank(v, H) == IF v = 0 THEN 0 ELSE Cardinality({u \in H : u <= v})

RECURSIVE RankSeq(_, _)
RankSeq(ch, H) ==
    IF ch = <<>> THEN <<>>
    ELSE <<[Head(ch) EXCEPT !.seq = Rank(Head(ch).seq, H)]>> \o RankSeq(Tail(ch), H)

\* the channel, the States being sent and the observer's last State become o, ch, pd
SetChans(o, ch, pd) ==
    LET H == Held(o, ch, pd)
    IN  /\ obsLast' = Rank(o, H)
        /\ stateCh' = RankSeq(ch, H)
        /\ pending' = [p \in Starters |-> [pd[p] EXCEPT !.seq = Rank(pd[p].seq, H)]]

\* Positions of a Start call between its acceptance and the ctx.Done() case.
LivePcs == {"disableLeader", "enableFollower", "logStarted", "select",
            "read", "write", "sendTry", "sendDrain", "sendBlock"}

\* Positions of a Start call inside sendState.
SendPcs == {"sendTry", "sendDrain", "sendBlock"}

\* A bus operation fails on a closed bus and may fail on an open one.
Outcomes(open) == IF open THEN {TRUE, FALSE} ELSE {FALSE}

\* NewController: both arms open, both channels empty, not running
InitController ==
    /\ running = FALSE
    /\ stateCh = <<>>
    /\ logCh = <<>>
    /\ pc = [p \in Starters |-> "idle"]
    /\ pending = [p \in Starters |-> NoState]
    /\ cpc = "idle"
    /\ ctxDone = FALSE
    /\ leaderOpen = TRUE
    /\ followerOpen = TRUE
    /\ obsLast = 0
    /\ overlapped = FALSE
    /\ closeErrs = FALSE
    /\ closeRet = "none"

\* no calibration call is made
CalOff ==
    /\ cal = [RangeMin |-> 0, RangeMax |-> 0]
    /\ raw = 0
    /\ fused = FALSE
    /\ norm = FZero
    /\ back = 0
    /\ calPc = "off"

\* no tick's data is followed
StepOff ==
    /\ positions = <<>>
    /\ mirror = FALSE
    /\ followerPositions = <<>>
    /\ stepPc = "off"
    /\ written = <<>>
    /\ published = [any |-> FALSE, err |-> FALSE, positions |-> <<>>]
    /\ stepIo = [reads |-> 0, writes |-> 0, logs |-> 0, pubs |-> 0, wrote |-> "none", got |-> <<>>]
    /\ busRead = [err |-> FALSE, raw |-> <<>>]
    /\ busWrites = <<>>

\* no calibration is recorded
RecOff ==
    /\ curPositions = <<>>
    /\ minPositions = <<>>
    /\ maxPositions = <<>>
    /\ seen = <<>>
    /\ recPc = "off"
    /\ lastRead = <<>>
    /\ recCal = <<>>

\* no lookup is made
LookOff ==
    /\ calibration = <<>>
    /\ lookupId = 0
    /\ byId = [name |-> "", mc |-> [ID |-> 0, RangeMin |-> 0], ok |-> FALSE]
    /\ ids = <<>>
    /\ lookPc = "off"

\* the command is not run
CmdOff ==
    /\ cfg = [loaded |-> FALSE, leaderPort |-> "", followerPort |-> "",
              leaderCal |-> <<>>, followerCal |-> <<>>]
    /\ cmdPc = "off"

\* NewController that keeps cfg.Hz whatever it is
NewHzAsGiven(h) == h

\* NewController: if cfg.Hz <= 0 { cfg.Hz = 60 }; hz: cfg.Hz
NewHz(h) == IF h <= 0 THEN DefaultHz ELSE h

\* the controller as the teleoperate command makes it when no --hz is given
HzOff ==
    /\ cfgHz = FlagHz
    /\ hz = NewHz(cfgHz)
    /\ ctorPc = "made"

LibOff == StepOff /\ RecOff /\ LookOff /\ CmdOff /\ HzOff

Init ==
    /\ InitController
    /\ followerTorque \in BOOLEAN
    /\ leaderTorque = FALSE
    /\ CalOff
    /\ LibOff

\* LogPut that makes room by dropping the oldest pending message
LogPutEvictOldest(m) ==
    logCh' = IF Len(logCh) < LogCap THEN Append(logCh, Len(logCh) + 1)
             ELSE Append(Tail(logCh), Len(logCh) + 1)

\* log: select { case c.logCh <- msg: default: }
\* The text m is not kept: a pending message is its place in emission order.
LogPut(m) ==
    logCh' = IF Len(logCh) < LogCap THEN Append(logCh, Len(logCh) + 1) ELSE logCh

\* StartCheck whose "already running" return resets c.running
StartCheckRejectResets(p) ==
    /\ pc[p] = "idle"
    /\ IF running
       THEN /\ pc' = [pc EXCEPT ![p] = "rejected"]
            /\ running' = FALSE
            /\ UNCHANGED overlapped
       ELSE /\ pc' = [pc EXCEPT ![p] = "disableLeader"]
            /\ running' = TRUE
            /\ overlapped' = (overlapped \/ \E q \in Starters : pc[q] \in LivePcs)
    /\ UNCHANGED <<cpc, ctxDone, armVars, chanVars, logCh, closeVars, calVars, libVars>>

\* StartCheck without the c.running test
StartCheckUnguarded(p) ==
    /\ pc[p] = "idle"
    /\ pc' = [pc EXCEPT ![p] = "disableLeader"]
    /\ running' = TRUE
    /\ overlapped' = (overlapped \/ \E q \in Starters : pc[q] \in LivePcs)
    /\ UNCHANGED <<cpc, ctxDone, armVars, chanVars, logCh, closeVars, calVars, libVars>>

\* Start: c.mu.Lock(); if c.running { return "already running" }; c.running = true
StartCheck(p) ==
    /\ pc[p] = "idle"
    /\ IF running
       THEN /\ pc' = [pc EXCEPT ![p] = "rejected"]
            /\ UNCHANGED <<running, overlapped>>
       ELSE /\ pc' = [pc EXCEPT ![p] = "disableLeader"]
            /\ running' = TRUE
            /\ overlapped' = (overlapped \/ \E q \in Starters : pc[q] \in LivePcs)
    /\ UNCHANGED <<cpc, ctxDone, armVars, chanVars, logCh, closeVars, calVars, libVars>>

\* Start: c.leader.Disable(ctx), logged either way
StartDisableLeader(p) ==
    /\ pc[p] = "disableLeader"
    /\ \E ok \in Outcomes(leaderOpen) :
          /\ LogPut(IF ok THEN "leaderOff" ELSE "leaderOffWarn")
          /\ leaderTorque' = IF ok THEN FALSE ELSE leaderTorque
    /\ pc' = [pc EXCEPT ![p] = "enableFollower"]
    /\ UNCHANGED <<lifeVars, leaderOpen, followerOpen, followerTorque, chanVars, closeVars,
                   calVars, libVars>>

\* StartEnableFollower whose failure ends Start
StartEnableFollowerFatal(p) ==
    /\ pc[p] = "enableFollower"
    /\ \E ok \in Outcomes(followerOpen) :
          /\ LogPut(IF ok THEN "followerOn" ELSE "followerOnWarn")
          /\ followerTorque' = IF ok THEN TRUE ELSE followerTorque
          /\ pc' = [pc EXCEPT ![p] = IF ok THEN "logStarted" ELSE "returned"]
    /\ UNCHANGED <<lifeVars, leaderOpen, followerOpen, leaderTorque, chanVars, closeVars,
                   calVars, libVars>>

\* Start: c.follower.Enable(ctx), logged either way
StartEnableFollower(p) ==
    /\ pc[p] = "enableFollower"
    /\ \E ok \in Outcomes(followerOpen) :
          /\ LogPut(IF ok THEN "followerOn" ELSE "followerOnWarn")
          /\ followerTorque' = IF ok THEN TRUE ELSE followerTorque
    /\ pc' = [pc EXCEPT ![p] = "logStarted"]
    /\ UNCHANGED <<lifeVars, leaderOpen, followerOpen, leaderTorque, chanVars, closeVars,
                   calVars, libVars>>

\* Start: c.log("Teleoperation started at %d Hz"), then the ticker and the loop
StartLogStarted(p) ==
    /\ pc[p] = "logStarted"
    /\ LogPut("started")
    /\ pc' = [pc EXCEPT ![p] = "select"]
    /\ UNCHANGED <<lifeVars, armVars, chanVars, closeVars, calVars, libVars>>

\* Start: case <-ticker.C: c.step(ctx)
Tick(p) ==
    /\ pc[p] = "select"
    /\ pc' = [pc EXCEPT ![p] = "read"]
    /\ UNCHANGED <<lifeVars, armVars, chanVars, logCh, closeVars, calVars, libVars>>

\* StepRead that reads the follower's positions
StepReadFromFollower(p) ==
    /\ pc[p] = "read"
    /\ \E ok \in Outcomes(followerOpen) :
          IF ok
          THEN /\ pc' = [pc EXCEPT ![p] = "write"]
               /\ UNCHANGED <<logCh, chanVars>>
          ELSE /\ LogPut("readErr")
               /\ SetChans(obsLast, stateCh,
                           [pending EXCEPT ![p] = MkState(Now, TRUE)])
               /\ pc' = [pc EXCEPT ![p] = "sendTry"]
    /\ UNCHANGED <<lifeVars, armVars, closeVars, calVars, libVars>>

\* StepRead whose read error ends Start instead of the tick
StepReadFatal(p) ==
    /\ pc[p] = "read"
    /\ \E ok \in Outcomes(leaderOpen) :
          IF ok
          THEN /\ pc' = [pc EXCEPT ![p] = "write"]
               /\ UNCHANGED <<logCh, chanVars>>
          ELSE /\ LogPut("readErr")
               /\ pc' = [pc EXCEPT ![p] = "returned"]
               /\ UNCHANGED chanVars
    /\ UNCHANGED <<lifeVars, armVars, closeVars, calVars, libVars>>

\* StepRead without the return after a read error: the step goes on to the write
StepReadNoReturn(p) ==
    /\ pc[p] = "read"
    /\ \E ok \in Outcomes(leaderOpen) :
          IF ok THEN UNCHANGED logCh ELSE LogPut("readErr")
    /\ pc' = [pc EXCEPT ![p] = "write"]
    /\ UNCHANGED <<lifeVars, armVars, chanVars, closeVars, calVars, libVars>>

\* step: c.leader.ReadPositions(ctx); on error log, build the error State, sendState
StepRead(p) ==
    /\ pc[p] = "read"
    /\ \E ok \in Outcomes(leaderOpen) :
          IF ok
          THEN /\ pc' = [pc EXCEPT ![p] = "write"]
               /\ UNCHANGED <<logCh, chanVars>>
          ELSE /\ LogPut("readErr")
               /\ SetChans(obsLast, stateCh,
                           [pending EXCEPT ![p] = MkState(Now, TRUE)])
               /\ pc' = [pc EXCEPT ![p] = "sendTry"]
    /\ UNCHANGED <<lifeVars, armVars, closeVars, calVars, libVars>>

\* StepWrite that puts a failed write into the State as well
StepWriteReportsError(p) ==
    /\ pc[p] = "write"
    /\ \E ok \in Outcomes(followerOpen) :
          IF ok
          THEN /\ UNCHANGED logCh
               /\ SetChans(obsLast, stateCh, [pending EXCEPT ![p] = MkState(Now, FALSE)])
          ELSE /\ LogPut("writeErr")
               /\ SetChans(obsLast, stateCh,
                           [pending EXCEPT ![p] = [MkState(Now, FALSE) EXCEPT !.err = TRUE]])
    /\ pc' = [pc EXCEPT ![p] = "sendTry"]
    /\ UNCHANGED <<lifeVars, armVars, closeVars, calVars, libVars>>

\* step: c.follower.WritePositions(ctx, followerPositions), an error is logged;
\* then the State with the positions is built and handed to sendState
StepWrite(p) ==
    /\ pc[p] = "write"
    /\ \E ok \in Outcomes(followerOpen) :
          IF ok THEN UNCHANGED logCh ELSE LogPut("writeErr")
    /\ SetChans(obsLast, stateCh, [pending EXCEPT ![p] = MkState(Now, FALSE)])
    /\ pc' = [pc EXCEPT ![p] = "sendTry"]
    /\ UNCHANGED <<lifeVars, armVars, closeVars, calVars, libVars>>

\* sendState: select { case c.stateCh <- s: default: ... }
SendTry(p) ==
    /\ pc[p] = "sendTry"
    /\ IF Len(stateCh) < StateCap
       THEN /\ SetChans(obsLast, Append(stateCh, pending[p]),
                        [pending EXCEPT ![p] = NoState])
            /\ pc' = [pc EXCEPT ![p] = "select"]
       ELSE /\ pc' = [pc EXCEPT ![p] = "sendDrain"]
            /\ UNCHANGED chanVars
    /\ UNCHANGED <<lifeVars, armVars, logCh, closeVars, calVars, libVars>>

\* SendDrain that leaves the stale State in the channel
SendDrainSkipped(p) ==
    /\ pc[p] = "sendDrain"
    /\ pc' = [pc EXCEPT ![p] = "sendBlock"]
    /\ UNCHANGED <<lifeVars, armVars, chanVars, logCh, closeVars, calVars, libVars>>

\* sendState: select { case <-c.stateCh: default: }
SendDrain(p) ==
    /\ pc[p] = "sendDrain"
    /\ SetChans(obsLast, IF Len(stateCh) > 0 THEN Tail(stateCh) ELSE stateCh,
                pending)
    /\ pc' = [pc EXCEPT ![p] = "sendBlock"]
    /\ UNCHANGED <<lifeVars, armVars, logCh, closeVars, calVars, libVars>>

\* sendState: c.stateCh <- s, a blocking send
SendBlock(p) ==
    /\ pc[p] = "sendBlock"
    /\ Len(stateCh) < StateCap
    /\ SetChans(obsLast, Append(stateCh, pending[p]),
                [pending EXCEPT ![p] = NoState])
    /\ pc' = [pc EXCEPT ![p] = "select"]
    /\ UNCHANGED <<lifeVars, armVars, logCh, closeVars, calVars, libVars>>

\* Start: case <-ctx.Done(): c.shutdown(); shutdown: c.running = false
CtxDone(p) ==
    /\ pc[p] = "select"
    /\ ctxDone
    /\ running' = FALSE
    /\ pc' = [pc EXCEPT ![p] = "sdDisable"]
    /\ UNCHANGED <<cpc, ctxDone, overlapped, armVars, chanVars, logCh, closeVars, calVars, libVars>>

\* shutdown: c.follower.Disable(context.Background()), logged either way
ShutdownDisable(p) ==
    /\ pc[p] = "sdDisable"
    /\ \E ok \in Outcomes(followerOpen) :
          /\ LogPut(IF ok THEN "followerOff" ELSE "followerOffWarn")
          /\ followerTorque' = IF ok THEN FALSE ELSE followerTorque
    /\ pc' = [pc EXCEPT ![p] = "sdLog"]
    /\ UNCHANGED <<lifeVars, leaderOpen, followerOpen, leaderTorque, chanVars, closeVars,
                   calVars, libVars>>

\* shutdown: c.log("Teleoperation stopped"); Start: return ctx.Err()
ShutdownLog(p) ==
    /\ pc[p] = "sdLog"
    /\ LogPut("stopped")
    /\ pc' = [pc EXCEPT ![p] = "returned"]
    /\ UNCHANGED <<lifeVars, armVars, chanVars, closeVars, calVars, libVars>>

\* Close: c.mu.Lock(); c.running = false; c.mu.Unlock()
CloseFlag ==
    /\ cpc = "idle"
    /\ running' = FALSE
    /\ cpc' = "closeLeader"
    /\ UNCHANGED <<ctxDone, overlapped, armVars, chanVars, pc, logCh, closeVars, calVars, libVars>>

\* Close that returns at the first close that fails
CloseLeaderReturnsEarly ==
    /\ cpc = "closeLeader"
    /\ leaderOpen' = FALSE
    /\ \E ok \in Outcomes(leaderOpen) :
          IF ok
          THEN /\ cpc' = "closeFollower"
               /\ UNCHANGED closeVars
          ELSE /\ cpc' = "done"
               /\ closeErrs' = TRUE
               /\ closeRet' = "error"
    /\ UNCHANGED <<running, ctxDone, overlapped, followerOpen, followerTorque, leaderTorque,
                   chanVars, pc, logCh, calVars, libVars>>

\* Close: if err := c.leader.Close(); err != nil { errs = append(errs, err) }
CloseLeader ==
    /\ cpc = "closeLeader"
    /\ leaderOpen' = FALSE
    /\ \E ok \in Outcomes(leaderOpen) :
          closeErrs' = (closeErrs \/ ~ok)
    /\ cpc' = "closeFollower"
    /\ UNCHANGED <<running, ctxDone, overlapped, followerOpen, followerTorque, leaderTorque,
                   chanVars, closeRet, pc, logCh, calVars, libVars>>

\* Close: if err := c.follower.Close(); err != nil { errs = append(errs, err) };
\* if len(errs) > 0 { return fmt.Errorf(...) }; return nil
CloseFollower ==
    /\ cpc = "closeFollower"
    /\ followerOpen' = FALSE
    /\ \E ok \in Outcomes(followerOpen) :
          /\ closeErrs' = (closeErrs \/ ~ok)
          /\ closeRet' = IF closeErrs' THEN "error" ELSE "nil"
    /\ cpc' = "done"
    /\ UNCHANGED <<running, ctxDone, overlapped, leaderOpen, followerTorque, leaderTorque,
                   chanVars, pc, logCh, calVars, libVars>>

\* the caller's cancel()
Cancel ==
    /\ ~ctxDone
    /\ ctxDone' = TRUE
    /\ UNCHANGED <<running, cpc, overlapped, armVars, chanVars, pc, logCh, closeVars,
                   calVars, libVars>>

\* the observer: <-ctrl.States()
RecvState ==
    /\ Len(stateCh) > 0
    /\ SetChans(Head(stateCh).seq, Tail(stateCh), pending)
    /\ UNCHANGED <<lifeVars, armVars, pc, logCh, closeVars, calVars, libVars>>

\* the observer: <-ctrl.Logs()
RecvLog ==
    /\ Len(logCh) > 0
    /\ logCh' = [i \in 1..Len(Tail(logCh)) |-> i]
    /\ UNCHANGED <<lifeVars, armVars, chanVars, pc, closeVars, calVars, libVars>>

Next ==
    \/ \E p \in Starters : StartCheck(p)
    \/ \E p \in Starters : StartDisableLeader(p)
    \/ \E p \in Starters : StartEnableFollower(p)
    \/ \E p \in Starters : StartLogStarted(p)
    \/ \E p \in Starters : Tick(p)
    \/ \E p \in Starters : StepRead(p)
    \/ \E p \in Starters : StepWrite(p)
    \/ \E p \in Starters : SendTry(p)
    \/ \E p \in Starters : SendDrain(p)
    \/ \E p \in Starters : SendBlock(p)
    \/ \E p \in Starters : CtxDone(p)
    \/ \E p \in Starters : ShutdownDisable(p)
    \/ \E p \in Starters : ShutdownLog(p)
    \/ CloseFlag
    \/ CloseLeader
    \/ CloseFollower
    \/ Cancel
    \/ RecvState
    \/ RecvLog

Spec == Init /\ [][Next]_vars

\* ------------------------------------------------------------------------
\* The state channel

\* sendState, any of its three steps
SendState(p) == SendTry(p) \/ SendDrain(p) \/ SendBlock(p)

\* C1: as long as no two control loops have run side by side, a Start call
\* inside sendState can always take its next step, the final blocking send
\* included, whatever the observer has or has not received: sendState never
\* waits, with no consumer at all in particular.
C1_SendStateNeverBlocks ==
    ~overlapped => \A p \in Starters : pc[p] \in SendPcs => ENABLED SendState(p)

\* C1 witness: the single loop is at the blocking send, having found the slot
\* occupied, and no observer has ever received a State.
C1_Witness ==
    /\ ~overlapped
    /\ obsLast = 0
    /\ \E p \in Starters : pc[p] = "sendBlock"

\* C2: the channel never holds more than one State, and the State the
\* observer would receive next is newer than the one it received last.
C2_MailboxNeverOlder ==
    /\ Len(stateCh) <= StateCap
    /\ stateCh # <<>> => Head(stateCh).seq > obsLast

\* ------------------------------------------------------------------------
\* The lifecycle

\* Close or shutdown has set c.running = false
StopBegun == cpc # "idle" \/ \E p \in Starters : pc[p] \in {"sdDisable", "sdLog", "returned"}

\* C3: when both Start calls have passed the test of c.running and neither
\* Close nor shutdown has run, exactly one runs the control loop and exactly one
\* has returned "already running"; before that, at most one runs the loop.
C3_OneLoopOneError ==
    ~StopBegun =>
        /\ Cardinality({p \in Starters : pc[p] \in LivePcs}) <= 1
        /\ (\A p \in Starters : pc[p] # "idle") =>
              /\ Cardinality({p \in Starters : pc[p] \in LivePcs}) = 1
              /\ Cardinality({p \in Starters : pc[p] = "rejected"}) = 1

\* C3 witness: both calls are past the test, one of them in the loop's step.
C3_Witness ==
    /\ ~StopBegun
    /\ \E p, q \in Starters : pc[p] = "rejected" /\ pc[q] = "write"

\* the controller has been Running and is not: a Start was accepted, and
\* shutdown or Close has cleared c.running since
Stopped == ~running /\ \E p \in Starters : pc[p] \notin {"idle", "rejected"}

\* C4: once the controller has left Running it is never Running again.
C4_NeverRunningAgain == [][Stopped => ~running']_vars

\* C5: after Close has returned no tick starts a step and no step reads the
\* leader or writes the follower.
C5_NoStepAfterClose ==
    [][cpc = "done" =>
         \A p \in Starters :
            /\ pc[p] = "select" => pc'[p] # "read"
            /\ pc[p] \in {"read", "write"} => pc'[p] = pc[p]]_vars

\* C6: a read error ends the tick, not the loop.  A leader read is followed by
\* the follower write or, on error, by publishing the error State; once a State
\* is published the loop is back at its select; the loop leaves its select only
\* for the next tick's leader read or, when ctx is done, for shutdown; and at
\* the select the next tick can always fire.
C6_ReadErrorKeepsLoop ==
    /\ [](\A p \in Starters : pc[p] = "select" => ENABLED Tick(p))
    /\ [][\A p \in Starters :
            /\ (pc[p] = "read" /\ pc'[p] # "read") =>
                  \/ pc'[p] = "write"
                  \/ pc'[p] = "sendTry" /\ pending'[p].err
            /\ (pc[p] = "write" /\ pc'[p] # "write") =>
                  pc'[p] = "sendTry" /\ ~pending'[p].err
            /\ (pc[p] \in SendPcs /\ pc'[p] \notin SendPcs) => pc'[p] = "select"
            /\ (pc[p] = "select" /\ pc'[p] # "select") =>
                  \/ pc'[p] = "read"
                  \/ ctxDone /\ pc'[p] = "sdDisable"]_vars

\* C6 witness: the only loop is at the leader read of a later tick while the
\* error State of an earlier tick is still in the channel; the bus is open and
\* ctx is not done.
C6_Witness ==
    /\ leaderOpen /\ ~ctxDone
    /\ stateCh # <<>> /\ Head(stateCh).err
    /\ pc["s1"] = "read" /\ pc["s2"] = "idle"

\* ------------------------------------------------------------------------
\* The log channel

\* the steps of Start that call c.log
LogSteps(p) ==
    \/ StartDisableLeader(p)
    \/ StartEnableFollower(p)
    \/ StartLogStarted(p)
    \/ ShutdownDisable(p)
    \/ ShutdownLog(p)

LogPcs == {"disableLeader", "enableFollower", "logStarted", "sdDisable", "sdLog"}

\* C7: the log channel never holds more than LogCap messages, kept in emission
\* order; a step that logs can always be taken (log does not wait); and
\* while LogCap messages are pending the channel changes only by the observer
\* taking the oldest: a log call then leaves the pending messages as they are.
C7_LogDropsOnFull ==
    /\ [](/\ Len(logCh) <= LogCap
          /\ logCh = [i \in 1..Len(logCh) |-> i]
          /\ \A p \in Starters : pc[p] \in LogPcs => ENABLED LogSteps(p))
    /\ [][(Len(logCh) = LogCap /\ logCh' # logCh) =>
             logCh' = [i \in 1..(LogCap - 1) |-> i]]_vars

\* C7 witness: LogCap messages are pending and a Start call is about to log
\* its "Teleoperation stopped" line.
C7_Witness ==
    /\ Len(logCh) = LogCap
    /\ \E p \in Starters : pc[p] = "sdLog"

\* ------------------------------------------------------------------------
\* Calls of Normalize and Denormalize

SmallCals ==
    {[RangeMin |-> a, RangeMax |-> a + w] : a \in (0 - MinSpan)..MinSpan,
                                           w \in (0 - MinSpan)..MaxWidth}

\* the calibrations of TestMotorCalibration_Normalize/_Denormalize and _RoundTrip
TestCals == {[RangeMin |-> 1000, RangeMax |-> 3000], [RangeMin |-> 823, RangeMax |-> 3540]}

Calibrations == SmallCals \cup TestCals

RawInputs(c) ==
    IF c \in TestCals
    THEN {c.RangeMin + RawStep * i : i \in 0..((c.RangeMax - c.RangeMin) \div RawStep)}
         \cup {c.RangeMax}
    ELSE (c.RangeMin - Over)..(c.RangeMax + Over)

NormInputs == {FFromInt(k) : k \in (0 - NormMax)..NormMax}

InitCal ==
    /\ InitController
    /\ followerTorque = FALSE
    /\ leaderTorque = FALSE
    /\ cal \in Calibrations
    /\ back = 0
    /\ LibOff
    /\ \/ /\ calPc = "raw"
          /\ raw \in RawInputs(cal)
          /\ fused \in BOOLEAN
          /\ norm = FZero
       \/ /\ calPc = "norm"
          /\ raw = 0
          /\ fused = FALSE
          /\ norm \in NormInputs

\* norm := cal.Normalize(raw)
CalNormalize ==
    /\ calPc = "raw"
    /\ norm' = Normalize(cal, raw, fused)
    /\ calPc' = "normalized"
    /\ UNCHANGED <<cal, raw, fused, back, ctlVars, libVars>>

\* back := cal.Denormalize(norm), norm the result of Normalize
CalRoundTrip ==
    /\ calPc = "normalized"
    /\ back' = Denormalize(cal, norm)
    /\ calPc' = "roundTrip"
    /\ UNCHANGED <<cal, raw, fused, norm, ctlVars, libVars>>

\* cal.Denormalize(norm), norm an input
CalDenormalize ==
    /\ calPc = "norm"
    /\ back' = Denormalize(cal, norm)
    /\ calPc' = "denormalized"
    /\ UNCHANGED <<cal, raw, fused, norm, ctlVars, libVars>>

NextCal == CalNormalize \/ CalRoundTrip \/ CalDenormalize

SpecCal == InitCal /\ [][NextCal]_vars

\* ------------------------------------------------------------------------
\* Normalize and Denormalize

XAbs(x) == [x EXCEPT !.neg = FALSE]

\* x * 2^k
XScale(x, k) == IF x.m = <<>> THEN x ELSE [x EXCEPT !.e = @ + k]

InRange == cal.RangeMin <= raw /\ raw <= cal.RangeMax

\* C8: for every calibration and every raw position within its range,
\* Denormalize(Normalize(raw)) is raw - 1, raw or raw + 1, whether or not the
\* build fuses the multiplication and the subtraction of Normalize.
C8_RoundTripWithinOne ==
    (calPc = "roundTrip" /\ InRange) => back - raw \in {-1, 0, 1}

\* C8 witness: a round trip of a raw position within the range that loses one.
C8_Witness == calPc = "roundTrip" /\ InRange /\ back = raw - 1

\* C9: for a calibration with RangeMax > RangeMin, Normalize(RangeMin) is
\* exactly -100, Normalize(RangeMax) exactly 100, Normalize of the exact
\* midpoint exactly 0; within the range Normalize(raw) is within 2^-40 of
\* (raw - RangeMin) / (RangeMax - RangeMin) * 200 - 100; and for 1000..3000 it
\* maps 1500 to -50 and 2500 to 50.
C9_NormalizeLinear ==
    (calPc \in {"normalized", "roundTrip"} /\ cal.RangeMin < cal.RangeMax) =>
        LET w == cal.RangeMax - cal.RangeMin
            exactTimesW == XInt((raw - cal.RangeMin) * 200 - 100 * w)
            diff == XAdd(XMul(norm, XInt(w)), XNeg(exactTimesW))
        IN  /\ raw = cal.RangeMin => norm = FFromInt(-100)
            /\ raw = cal.RangeMax => norm = FFromInt(100)
            /\ 2 * raw = cal.RangeMin + cal.RangeMax => norm = FZero
            /\ InRange => XCmp(XAbs(diff), XScale(XInt(w), -40)) <= 0
            /\ (cal = [RangeMin |-> 1000, RangeMax |-> 3000] /\ raw = 1500) =>
                  norm = FFromInt(-50)
            /\ (cal = [RangeMin |-> 1000, RangeMax |-> 3000] /\ raw = 2500) =>
                  norm = FFromInt(50)

\* C9 witness: Normalize(1500) = -50 for the range 1000..3000.
C9_Witness ==
    /\ calPc = "normalized"
    /\ cal = [RangeMin |-> 1000, RangeMax |-> 3000]
    /\ raw = 1500
    /\ norm = FFromInt(-50)

\* n / 200 toward zero
TruncDiv200(n) == IF n >= 0 THEN n \div 200 ELSE 0 - ((0 - n) \div 200)

\* C10 as stated: for a whole norm, Denormalize(norm) is the exact value of
\* (norm + 100) / 200 * (RangeMax - RangeMin) + RangeMin truncated to an
\* integer.
C10_TruncatedSum ==
    calPc = "denormalized" =>
        back = TruncDiv200((FTrunc(norm) + 100) * (cal.RangeMax - cal.RangeMin)
                           + 200 * cal.RangeMin)

\* C10 amended: Denormalize(norm) - RangeMin is the float64 product
\* (norm + 100) / 200 * (RangeMax - RangeMin) truncated toward zero, the
\* truncation coming before RangeMin is added; that product is within 2^-50,
\* relatively, of the exact one; Denormalize(-100) = RangeMin and
\* Denormalize(100) = RangeMax.
C10_TruncatedProductPlusMin ==
    calPc \in {"denormalized", "roundTrip"} =>
        LET w == cal.RangeMax - cal.RangeMin
            r == back - cal.RangeMin
            P == DenormProduct(cal, norm)
            exact200 == XMul(XAdd(norm, XInt(100)), XInt(w))
            diff200 == XAdd(XMul(P, XInt(200)), XNeg(exact200))
        IN  /\ IF XSign(P) >= 0
               THEN XCmp(XInt(r), P) <= 0 /\ XCmp(P, XInt(r + 1)) < 0
               ELSE XCmp(XInt(r - 1), P) < 0 /\ XCmp(P, XInt(r)) <= 0
            /\ XCmp(XAbs(diff200), XScale(XAbs(exact200), -50)) <= 0
            /\ norm = FFromInt(-100) => back = cal.RangeMin
            /\ norm = FFromInt(100) => back = cal.RangeMax

\* C10 witness: a norm below -100 and a negative RangeMin; the product, a
\* negative fraction, truncates to 0 and Denormalize returns RangeMin.
C10_Witness ==
    /\ calPc = "denormalized"
    /\ XCmp(norm, XInt(-100)) < 0
    /\ cal.RangeMin < 0 /\ cal.RangeMax > cal.RangeMin
    /\ back = cal.RangeMin

\* C11: with RangeMin = RangeMax, Normalize returns exactly 0 for every raw
\* position, at or away from RangeMin: the result is never the NaN or infinity
\* of a division by the zero range.
C11_ZeroRangeIsZero ==
    (calPc \in {"normalized", "roundTrip"} /\ cal.RangeMin = cal.RangeMax) =>
        norm = FZero

\* C11 witness: a zero-width range and a raw position away from it.
C11_Witness ==
    /\ calPc = "normalized"
    /\ cal.RangeMin = cal.RangeMax
    /\ raw > cal.RangeMax
    /\ norm = FZero

ShoulderPan == "shoulder_pan"
ShoulderLift == "shoulder_lift"
ElbowFlex == "elbow_flex"
WristFlex == "wrist_flex"
WristRoll == "wrist_roll"
Gripper == "gripper"

\* func AllMotors() []MotorName
AllMotors == <<ShoulderPan, ShoulderLift, ElbowFlex, WristFlex, WristRoll, Gripper>>

MotorNames == {AllMotors[i] : i \in 1..Len(AllMotors)}

\* position of a name in AllMotors; 0 for any other name
OrderOf(name) ==
    IF name \in MotorNames THEN CHOOSE i \in 1..Len(AllMotors) : AllMotors[i] = name ELSE 0

\* -pos
FNeg(x) == XNeg(x)

\* the mirroring of step with wrist_flex taken for wrist_roll
FollowerPositionsWristFlex(pos, mir) ==
    IF mir
    THEN [name \in DOMAIN pos |->
            IF name = ShoulderPan \/ name = WristFlex THEN FNeg(pos[name]) ELSE pos[name]]
    ELSE pos

\* step: followerPositions := positions; if c.mirror { ... }
FollowerPositions(pos, mir) ==
    IF mir
    THEN [name \in DOMAIN pos |->
            IF name = ShoulderPan \/ name = WristRoll THEN FNeg(pos[name]) ELSE pos[name]]
    ELSE pos

\* the example reading: shoulder_pan 10, shoulder_lift 20, wrist_roll -5, gripper 0
ExampleReading ==
    [name \in {ShoulderPan, ShoulderLift, WristRoll, Gripper} |->
        FFromInt(CASE name = ShoulderPan -> 10
                   [] name = ShoulderLift -> 20
                   [] name = WristRoll -> -5
                   [] OTHER -> 0)]

\* the maps ReadPositions can return: any of the motors, any position each
Readings ==
    UNION {[D -> {FFromInt(v) : v \in (0 - PosMax)..PosMax}] : D \in SUBSET MotorNames}
        \cup {ExampleReading}

InitStep ==
    /\ InitController
    /\ followerTorque = FALSE
    /\ leaderTorque = FALSE
    /\ CalOff
    /\ positions \in Readings
    /\ mirror \in BOOLEAN
    /\ followerPositions = <<>>
    /\ stepPc = "read"
    /\ written = <<>>
    /\ published = [any |-> FALSE, err |-> FALSE, positions |-> <<>>]
    /\ stepIo = [reads |-> 1, writes |-> 0, logs |-> 0, pubs |-> 0, wrote |-> "none",
                 got |-> positions]
    /\ busRead = [err |-> FALSE, raw |-> <<>>]
    /\ busWrites = <<>>
    /\ RecOff
    /\ LookOff
    /\ CmdOff
    /\ HzOff

\* the mirroring of step done in the map that was read
StepMirrorInPlace ==
    /\ stepPc = "read"
    /\ followerPositions' = FollowerPositions(positions, mirror)
    /\ positions' = followerPositions'
    /\ stepPc' = "mirrored"
    /\ UNCHANGED <<busRead, busWrites, mirror, written, published, stepIo,
                   ctlVars, calVars, recVars, lookVars, cmdVars, hzVars>>

\* step, lines 235-245: the targets of this tick
StepMirror ==
    /\ stepPc = "read"
    /\ followerPositions' = FollowerPositions(positions, mirror)
    /\ stepPc' = "mirrored"
    /\ UNCHANGED <<positions, busRead, busWrites, mirror, written, published, stepIo,
                   ctlVars, calVars, recVars, lookVars, cmdVars, hzVars>>

NextStep == StepMirror

SpecStep == InitStep /\ [][NextStep]_vars

\* C13: the follower's targets have the motor names of the leader's reading;
\* with mirroring on, the targets of shoulder_pan and wrist_roll are the
\* reading's values negated (target + reading = 0) and every other motor's
\* target is the reading's value; with mirroring off every target is the
\* reading's value; the example reading mirrors to -10, 20, 5, 0.
C13_MirrorInvertsTwo ==
    stepPc = "mirrored" =>
        /\ DOMAIN followerPositions = DOMAIN positions
        /\ \A name \in DOMAIN positions :
              IF mirror /\ name \in {"shoulder_pan", "wrist_roll"}
              THEN XSign(XAdd(followerPositions[name], positions[name])) = 0
              ELSE followerPositions[name] = positions[name]
        /\ (mirror /\ positions = ExampleReading) =>
              /\ followerPositions["shoulder_pan"] = FFromInt(-10)
              /\ followerPositions["shoulder_lift"] = FFromInt(20)
              /\ followerPositions["wrist_roll"] = FFromInt(5)
              /\ followerPositions["gripper"] = FFromInt(0)

\* C13 witness: the example reading, mirrored.
C13_Witness ==
    /\ stepPc = "mirrored"
    /\ mirror
    /\ positions = ExampleReading
    /\ followerPositions["wrist_roll"] = FFromInt(5)

\* ------------------------------------------------------------------------
\* The ticks of one loop: read, mirror, write, publish, and again

\* a loop about to take its first tick
InitTicks ==
    /\ InitController
    /\ followerTorque = FALSE
    /\ leaderTorque = FALSE
    /\ CalOff
    /\ positions = <<>>
    /\ mirror \in BOOLEAN
    /\ followerPositions = <<>>
    /\ stepPc = "tick"
    /\ written = <<>>
    /\ published = [any |-> FALSE, err |-> FALSE, positions |-> <<>>]
    /\ stepIo = [reads |-> 0, writes |-> 0, logs |-> 0, pubs |-> 0, wrote |-> "none", got |-> <<>>]
    /\ busRead = [err |-> FALSE, raw |-> <<>>]
    /\ busWrites = <<>>
    /\ RecOff
    /\ LookOff
    /\ CmdOff
    /\ HzOff

\* TickRead that reads again when the read has failed
TickReadRetries ==
    /\ stepPc = "tick"
    /\ \/ \E r \in {ExampleReading,
                     [name \in MotorNames |-> FFromInt(PosMax)],
                     [name \in {ShoulderPan, Gripper} |-> FFromInt(0 - PosMax)],
                     <<>>} :
             /\ positions' = r
             /\ stepIo' = [stepIo EXCEPT !.reads = @ + 1, !.got = r]
             /\ stepPc' = "read"
             /\ UNCHANGED published
       \/ /\ stepIo.reads < 3
          /\ stepIo' = [stepIo EXCEPT !.reads = @ + 1, !.logs = @ + 1]
          /\ UNCHANGED <<positions, published, stepPc>>
    /\ UNCHANGED <<busRead, busWrites, mirror, followerPositions, written,
                   ctlVars, calVars, recVars, lookVars, cmdVars, hzVars>>

\* step, lines 227-232: positions, err := c.leader.ReadPositions(ctx); on an
\* error the log line, the State with the error, and return
TickRead ==
    /\ stepPc = "tick"
    /\ \/ \E r \in {ExampleReading,
                     [name \in MotorNames |-> FFromInt(PosMax)],
                     [name \in {ShoulderPan, Gripper} |-> FFromInt(0 - PosMax)],
                     <<>>} :
             /\ positions' = r
             /\ stepIo' = [stepIo EXCEPT !.reads = @ + 1, !.got = r]
             /\ stepPc' = "read"
             /\ UNCHANGED published
       \/ /\ stepIo' = [stepIo EXCEPT !.reads = @ + 1, !.logs = @ + 1, !.pubs = @ + 1]
          /\ published' = [any |-> TRUE, err |-> TRUE, positions |-> <<>>]
          /\ stepPc' = "published"
          /\ UNCHANGED positions
    /\ UNCHANGED <<busRead, busWrites, mirror, followerPositions, written,
                   ctlVars, calVars, recVars, lookVars, cmdVars, hzVars>>

\* TickWrite that returns when the write has failed
TickWriteFatal ==
    /\ stepPc = "mirrored"
    /\ written' = followerPositions
    /\ \E ok \in BOOLEAN :
          IF ok
          THEN /\ stepIo' = [stepIo EXCEPT !.writes = @ + 1, !.pubs = @ + 1, !.wrote = "ok"]
               /\ published' = [any |-> TRUE, err |-> FALSE, positions |-> positions]
          ELSE /\ stepIo' = [stepIo EXCEPT !.writes = @ + 1, !.logs = @ + 1,
                                           !.wrote = "fail"]
               /\ UNCHANGED published
    /\ stepPc' = "published"
    /\ UNCHANGED <<positions, busRead, busWrites, mirror, followerPositions,
                   ctlVars, calVars, recVars, lookVars, cmdVars, hzVars>>

\* step, lines 247-256: c.follower.WritePositions(ctx, followerPositions), an
\* error is logged; c.sendState(State{Positions: positions, ...})
TickWrite ==
    /\ stepPc = "mirrored"
    /\ written' = followerPositions
    /\ \E ok \in BOOLEAN :
          stepIo' = [stepIo EXCEPT !.writes = @ + 1, !.pubs = @ + 1,
                                  !.logs = IF ok THEN @ ELSE @ + 1,
                                  !.wrote = IF ok THEN "ok" ELSE "fail"]
    /\ published' = [any |-> TRUE, err |-> FALSE, positions |-> positions]
    /\ stepPc' = "published"
    /\ UNCHANGED <<positions, busRead, busWrites, mirror, followerPositions,
                   ctlVars, calVars, recVars, lookVars, cmdVars, hzVars>>

\* step returns, its variables are gone, and Start waits for the next tick
TickReturn ==
    /\ stepPc = "published"
    /\ positions' = <<>>
    /\ followerPositions' = <<>>
    /\ stepIo' = [reads |-> 0, writes |-> 0, logs |-> 0, pubs |-> 0, wrote |-> "none",
                  got |-> <<>>]
    /\ stepPc' = "tick"
    /\ UNCHANGED <<busRead, busWrites, mirror, written, published,
                   ctlVars, calVars, recVars, lookVars, cmdVars, hzVars>>

NextTicks ==
    \/ TickRead
    \/ StepMirror
    \/ TickWrite
    \/ TickReturn

SpecTicks == InitTicks /\ [][NextTicks]_vars

\* C21: a step whose follower write has failed has logged one line and has
\* handed sendState one State, which has no error and carries the leader
\* positions read in this tick; the step then returns and the loop takes the
\* next tick; the targets a tick hands to WritePositions are those of the
\* reading of that same tick.
C21_WriteFailureStillPublishes ==
    /\ [](stepPc = "published" /\ stepIo.wrote = "fail" =>
            /\ stepIo.logs = 1
            /\ stepIo.pubs = 1
            /\ published.any /\ ~published.err
            /\ published.positions = stepIo.got
            /\ ENABLED TickReturn)
    /\ [](stepPc = "published" /\ stepIo.wrote # "none" =>
            /\ DOMAIN written = DOMAIN stepIo.got
            /\ \A name \in DOMAIN written :
                  \/ written[name] = stepIo.got[name]
                  \/ XSign(XAdd(written[name], stepIo.got[name])) = 0)
    /\ [][stepPc = "published" /\ stepPc' # "published" =>
            stepPc' = "tick" /\ written' = written /\ published' = published]_vars
    /\ [][stepPc = "tick" /\ stepPc' = "read" => stepIo'.got = positions']_vars

\* C21 witness: the example reading was mirrored, its write has failed, and
\* the State carries the example reading.
C21_Witness ==
    /\ stepPc = "published"
    /\ stepIo.wrote = "fail"
    /\ mirror
    /\ stepIo.got = ExampleReading
    /\ published.positions = ExampleReading
    /\ written["shoulder_pan"] = FFromInt(-10)

\* C22: the State of a step that read and wrote carries the positions exactly
\* as ReadPositions returned them; with mirroring on, the follower was handed
\* the negated shoulder_pan and wrist_roll while the State carries them as
\* read; and between the read and the State no step changes the map read.
C22_StateCarriesLeaderPositions ==
    /\ [](stepPc = "published" /\ ~published.err =>
            /\ published.positions = stepIo.got
            /\ \A name \in DOMAIN stepIo.got \cap {"shoulder_pan", "wrist_roll"} :
                  mirror => XSign(XAdd(written[name], published.positions[name])) = 0)
    /\ [](stepPc \in {"read", "mirrored", "published"} /\ stepIo.got # <<>> =>
            positions = stepIo.got)

\* C22 witness: the example reading was mirrored and written; the follower
\* got shoulder_pan -10 and wrist_roll 5, the State holds 10 and -5.
C22_Witness ==
    /\ stepPc = "published"
    /\ mirror
    /\ stepIo.wrote = "ok"
    /\ stepIo.got = ExampleReading
    /\ written["shoulder_pan"] = FFromInt(-10)
    /\ written["wrist_roll"] = FFromInt(5)
    /\ published.positions["shoulder_pan"] = FFromInt(10)
    /\ published.positions["wrist_roll"] = FFromInt(-5)

\* C28: a step reads the leader at most once and writes the follower at most
\* once: a step that has handed over its State has read once, and has written
\* once if the read succeeded and not at all if it failed.
C28_OneReadOneWrite ==
    /\ stepIo.reads <= 1
    /\ stepIo.writes <= 1
    /\ stepPc = "published" =>
          /\ stepIo.reads = 1
          /\ stepIo.writes = IF published.err THEN 0 ELSE 1

\* C28 witness: a step whose read failed has handed over its State.
C28_Witness ==
    /\ stepPc = "published"
    /\ published.err
    /\ stepIo.reads = 1
    /\ stepIo.writes = 0

\* ------------------------------------------------------------------------
\* The calibration recorder

\* m.motors: the recorder treats every motor alike; the model follows servos 1 and 2
RecMotors == {AllMotors[1], AllMotors[2]}

\* raw positions a servo reports
SampleSet == {1200, 1500, 1600, 1800}

\* servo.Position: (pos, nil), or an error
ReadResults ==
    {[ok |-> TRUE, pos |-> v] : v \in SampleSet} \cup {[ok |-> FALSE, pos |-> 0]}

SetMin(S) == CHOOSE x \in S : \A y \in S : x <= y

SetMax(S) == CHOOSE x \in S : \A y \in S : x >= y

\* one motor's entries after a tick's read: [cur, min, max, seen]
RecEntry(name) ==
    [cur |-> curPositions[name], min |-> minPositions[name],
     max |-> maxPositions[name], seen |-> seen[name]]

\* Update without the comparison with m.maxPositions
RecUpdateMinOnly(e, r) ==
    IF ~r.ok THEN e
    ELSE [cur |-> r.pos,
          min |-> IF r.pos < e.min THEN r.pos ELSE e.min,
          max |-> e.max,
          seen |-> e.seen \cup {r.pos}]

\* Update that widens the bounds against the previous current position
RecUpdateAgainstCur(e, r) ==
    IF ~r.ok THEN e
    ELSE [cur |-> r.pos,
          min |-> IF r.pos < e.cur THEN r.pos ELSE e.min,
          max |-> IF r.pos > e.cur THEN r.pos ELSE e.max,
          seen |-> e.seen \cup {r.pos}]

\* Update, case tickMsg, one iteration of the loop over m.motors
RecUpdate(e, r) ==
    IF ~r.ok THEN e
    ELSE [cur |-> r.pos,
          min |-> IF r.pos < e.min THEN r.pos ELSE e.min,
          max |-> IF r.pos > e.max THEN r.pos ELSE e.max,
          seen |-> e.seen \cup {r.pos}]

\* calibrateArm, lines 169-180: every map seeded with the first position read;
\* the four motors the model does not follow are held still at 1500
InitRec ==
    /\ InitController
    /\ followerTorque = FALSE
    /\ leaderTorque = FALSE
    /\ CalOff
    /\ StepOff
    /\ \E seed \in [RecMotors -> SampleSet] :
          LET all == [name \in MotorNames |-> IF name \in RecMotors THEN seed[name] ELSE 1500]
          IN  /\ curPositions = all
              /\ minPositions = all
              /\ maxPositions = all
              /\ seen = [name \in MotorNames |-> {all[name]}]
              /\ lastRead = [name \in RecMotors |-> [ok |-> TRUE, pos |-> seed[name]]]
    /\ recPc = "running"
    /\ recCal = <<>>
    /\ LookOff
    /\ CmdOff
    /\ HzOff

\* Update, case tickMsg, whose loop ends at the first read that fails
RecTickBreaks ==
    /\ recPc \in {"running", "quit"}
    /\ \E reading \in [RecMotors -> ReadResults] :
          LET got == [name \in MotorNames |->
                        IF name \notin RecMotors
                        THEN [ok |-> TRUE, pos |-> curPositions[name]]
                        ELSE IF \E other \in RecMotors :
                                   OrderOf(other) < OrderOf(name) /\ ~reading[other].ok
                             THEN [ok |-> FALSE, pos |-> 0]
                             ELSE reading[name]]
              after == [name \in MotorNames |-> RecUpdate(RecEntry(name), got[name])]
          IN  /\ curPositions' = [name \in MotorNames |-> after[name].cur]
              /\ minPositions' = [name \in MotorNames |-> after[name].min]
              /\ maxPositions' = [name \in MotorNames |-> after[name].max]
              /\ seen' = [name \in MotorNames |-> after[name].seen]
              /\ lastRead' = reading
    /\ UNCHANGED <<recPc, recCal, ctlVars, calVars, stepVars, lookVars, cmdVars, hzVars>>

\* Update, case tickMsg: it does not look at m.quitting, so a tick that arrives
\* after the key and before the program ends is handled like any other
RecTick ==
    /\ recPc \in {"running", "quit"}
    /\ \E reading \in [RecMotors -> ReadResults] :
          LET got == [name \in MotorNames |->
                        IF name \in RecMotors THEN reading[name]
                        ELSE [ok |-> TRUE, pos |-> curPositions[name]]]
              after == [name \in MotorNames |-> RecUpdate(RecEntry(name), got[name])]
          IN  /\ curPositions' = [name \in MotorNames |-> after[name].cur]
              /\ minPositions' = [name \in MotorNames |-> after[name].min]
              /\ maxPositions' = [name \in MotorNames |-> after[name].max]
              /\ seen' = [name \in MotorNames |-> after[name].seen]
              /\ lastRead' = reading
    /\ UNCHANGED <<recPc, recCal, ctlVars, calVars, stepVars, lookVars, cmdVars, hzVars>>

\* Update, case tea.KeyMsg "enter", "q", "ctrl+c"
RecQuit ==
    /\ recPc = "running"
    /\ recPc' = "quit"
    /\ UNCHANGED <<curPositions, minPositions, maxPositions, seen, lastRead, recCal,
                   ctlVars, calVars, stepVars, lookVars, cmdVars, hzVars>>

\* calibrateArm that numbers the servos from 0
RecBuildFromZero ==
    /\ recPc = "quit"
    /\ recCal' = [name \in MotorNames |->
                    [ID |-> OrderOf(name) - 1,
                     RangeMin |-> minPositions[name],
                     RangeMax |-> maxPositions[name]]]
    /\ recPc' = "built"
    /\ UNCHANGED <<curPositions, minPositions, maxPositions, seen, lastRead,
                   ctlVars, calVars, stepVars, lookVars, cmdVars, hzVars>>

\* calibrateArm, lines 190-210: p.Run() has returned; for i, motorName := range
\* motors { calibration[motorName] = MotorCalibration{ID: i + 1, ...} }
RecBuild ==
    /\ recPc = "quit"
    /\ recCal' = [name \in MotorNames |->
                    [ID |-> OrderOf(name),
                     RangeMin |-> minPositions[name],
                     RangeMax |-> maxPositions[name]]]
    /\ recPc' = "built"
    /\ UNCHANGED <<curPositions, minPositions, maxPositions, seen, lastRead,
                   ctlVars, calVars, stepVars, lookVars, cmdVars, hzVars>>

NextRec == RecTick \/ RecQuit \/ RecBuild

SpecRec == InitRec /\ [][NextRec]_vars

\* C14: after any ticks, each motor's min is the least and its max the
\* greatest of the seed and the samples read without error, and its current
\* position is one of them; a tick's sample read without error becomes the
\* current position, and a failed read leaves the motor's three entries as
\* they were; seed 1500 and samples 1500, 1200, 1800, 1600 give min 1200 and
\* max 1800.
C14_RecorderBounds ==
    /\ [](recPc # "off" =>
            \A name \in RecMotors :
               /\ minPositions[name] = SetMin(seen[name])
               /\ maxPositions[name] = SetMax(seen[name])
               /\ curPositions[name] \in seen[name]
               /\ seen[name] = {1200, 1500, 1600, 1800} =>
                     minPositions[name] = 1200 /\ maxPositions[name] = 1800)
    /\ [][recPc # "off" =>
            \A name \in RecMotors :
               \/ /\ curPositions'[name] \in seen'[name] \ seen[name]
               \/ /\ seen'[name] = seen[name]
                  /\ minPositions'[name] = minPositions[name]
                  /\ maxPositions'[name] = maxPositions[name]
                  /\ curPositions'[name] \in seen[name]]_vars

\* C14 witness: the recorder has quit; a motor last read at 1600 has also been
\* at 1500, 1200 and 1800.
C14_Witness ==
    /\ recPc = "quit"
    /\ \E name \in RecMotors :
          /\ seen[name] = {1200, 1500, 1600, 1800}
          /\ curPositions[name] = 1600
          /\ minPositions[name] = 1200
          /\ maxPositions[name] = 1800

\* C33: from the seeding on, through every tick and after the end, each
\* motor's min is at most its current position and its current position at
\* most its max.
C33_MinCurMax ==
    recPc # "off" =>
        \A name \in DOMAIN curPositions :
            /\ minPositions[name] <= curPositions[name]
            /\ curPositions[name] <= maxPositions[name]

\* C33 witness: the recorder has ended with a motor standing strictly between
\* its min and its max.
C33_Witness ==
    /\ recPc = "built"
    /\ \E name \in RecMotors :
          /\ minPositions[name] < curPositions[name]
          /\ curPositions[name] < maxPositions[name]

\* C34: once the finish key has been handled, no step changes any motor's min
\* or max.
C34_FinishFreezesBounds ==
    [][recPc = "quit" => minPositions' = minPositions /\ maxPositions' = maxPositions]_vars

\* C35: the calibration built has an entry for each of the six motors and no
\* other; the IDs are 1 to 6 in canonical order; each RangeMin is the least and
\* each RangeMax the greatest position seen of that motor, so that RangeMin is
\* at most RangeMax.
C35_BuiltCalibration ==
    recPc = "built" =>
        /\ DOMAIN recCal = {"shoulder_pan", "shoulder_lift", "elbow_flex",
                            "wrist_flex", "wrist_roll", "gripper"}
        /\ recCal["shoulder_pan"].ID = 1
        /\ recCal["shoulder_lift"].ID = 2
        /\ recCal["elbow_flex"].ID = 3
        /\ recCal["wrist_flex"].ID = 4
        /\ recCal["wrist_roll"].ID = 5
        /\ recCal["gripper"].ID = 6
        /\ \A name \in DOMAIN recCal :
              /\ recCal[name].RangeMin = SetMin(seen[name])
              /\ recCal[name].RangeMax = SetMax(seen[name])
              /\ recCal[name].RangeMin <= recCal[name].RangeMax

\* C35 witness: a calibration has been built in which shoulder_pan ranges
\* from 1200 to 1800.
C35_Witness ==
    /\ recPc = "built"
    /\ recCal["shoulder_pan"] = [ID |-> 1, RangeMin |-> 1200, RangeMax |-> 1800]

\* C36: no step raises a motor's min or lowers its max; in a tick a motor
\* whose read failed keeps its current position, min and max, and every
\* motor whose read succeeded has that position as its current one, whatever
\* the reads of the other motors returned.
C36_MonotoneAndFramed ==
    /\ [][recPc # "off" =>
            \A name \in DOMAIN minPositions :
                /\ minPositions'[name] <= minPositions[name]
                /\ maxPositions'[name] >= maxPositions[name]]_vars
    /\ [][recPc # "off" /\ lastRead' # lastRead =>
            \A name \in RecMotors :
                IF lastRead'[name].ok
                THEN curPositions'[name] = lastRead'[name].pos
                ELSE /\ curPositions'[name] = curPositions[name]
                     /\ minPositions'[name] = minPositions[name]
                     /\ maxPositions'[name] = maxPositions[name]]_vars
    /\ [](recPc # "off" =>
            \A name \in RecMotors : lastRead[name].ok => curPositions[name] = lastRead[name].pos)

\* C36 witness: in the last tick the read of shoulder_pan failed and that of
\* shoulder_lift gave 1200, which is its current position and its min.
C36_Witness ==
    /\ recPc = "running"
    /\ ~lastRead["shoulder_pan"].ok
    /\ lastRead["shoulder_lift"] = [ok |-> TRUE, pos |-> 1200]
    /\ curPositions["shoulder_lift"] = 1200
    /\ minPositions["shoulder_lift"] = 1200
    /\ maxPositions["shoulder_lift"] > 1200

\* ------------------------------------------------------------------------
\* Calibration.ByID and Calibration.MotorIDs

\* a key of a calibration file that is none of the six motor names
AuxName == "aux"

CalNames == MotorNames \cup {AuxName}

\* a MotorCalibration: its ID, and a RangeMin that tells the entries apart
Entry(name, id) == [ID |-> id, RangeMin |-> 100 * (OrderOf(name) + 1)]

\* the calibration of TestCalibration_MotorIDs: servo i + 1 for the i-th motor
StandardCalibration == [name \in MotorNames |-> Entry(name, OrderOf(name))]

\* the calibration of TestCalibration_ByID
TwoMotorCalibration == [name \in {ShoulderPan, Gripper} |-> Entry(name, OrderOf(name))]

LookupCalibrations ==
    UNION {{[name \in D |-> Entry(name, f[name])] : f \in [D -> 1..IdMax]} :
              D \in SUBSET CalNames}
        \cup {StandardCalibration, TwoMotorCalibration}

LookupIds == 0..(IdMax + 1) \cup {6, 99}

NotFound == [name |-> "", mc |-> [ID |-> 0, RangeMin |-> 0], ok |-> FALSE]

\* ByID that takes id for the motor's place in AllMotors
ByIDByOrder(c, id) ==
    IF \E name \in DOMAIN c : OrderOf(name) = id
    THEN {[name |-> name, mc |-> c[name], ok |-> TRUE] :
              name \in {n \in DOMAIN c : OrderOf(n) = id}}
    ELSE {NotFound}

\* func (c Calibration) ByID(id int): what it can return; the range over the
\* map visits the entries in any order and the first match is returned
ByID(c, id) ==
    IF \E name \in DOMAIN c : c[name].ID = id
    THEN {[name |-> name, mc |-> c[name], ok |-> TRUE] :
              name \in {n \in DOMAIN c : c[n].ID = id}}
    ELSE {NotFound}

RECURSIVE MotorIDsReversedFrom(_, _)
MotorIDsReversedFrom(c, i) ==
    IF i > Len(AllMotors) THEN <<>>
    ELSE IF AllMotors[i] \in DOMAIN c
         THEN Append(MotorIDsReversedFrom(c, i + 1), c[AllMotors[i]].ID)
         ELSE MotorIDsReversedFrom(c, i + 1)

\* MotorIDs that puts each ID in front of those found before
MotorIDsReversed(c) == MotorIDsReversedFrom(c, 1)

RECURSIVE MotorIDsFrom(_, _)
MotorIDsFrom(c, i) ==
    IF i > Len(AllMotors) THEN <<>>
    ELSE IF AllMotors[i] \in DOMAIN c
         THEN <<c[AllMotors[i]].ID>> \o MotorIDsFrom(c, i + 1)
         ELSE MotorIDsFrom(c, i + 1)

\* func (c Calibration) MotorIDs() []int
MotorIDs(c) == MotorIDsFrom(c, 1)

InitLookup ==
    /\ InitController
    /\ followerTorque = FALSE
    /\ leaderTorque = FALSE
    /\ CalOff
    /\ StepOff
    /\ RecOff
    /\ calibration \in LookupCalibrations
    /\ lookupId \in LookupIds
    /\ byId = NotFound
    /\ ids = <<>>
    /\ lookPc = "start"
    /\ CmdOff
    /\ HzOff

\* name, mc, ok := calibration.ByID(lookupId)
LookByID ==
    /\ lookPc = "start"
    /\ byId' \in ByID(calibration, lookupId)
    /\ lookPc' = "byId"
    /\ UNCHANGED <<calibration, lookupId, ids,
                   ctlVars, calVars, stepVars, recVars, cmdVars, hzVars>>

\* ids := calibration.MotorIDs()
LookMotorIDs ==
    /\ lookPc = "start"
    /\ ids' = MotorIDs(calibration)
    /\ lookPc' = "motorIDs"
    /\ UNCHANGED <<calibration, lookupId, byId,
                   ctlVars, calVars, stepVars, recVars, cmdVars, hzVars>>

NextLookup == LookByID \/ LookMotorIDs

SpecLookup == InitLookup /\ [][NextLookup]_vars

DistinctIDs(c) == \A a, b \in DOMAIN c : c[a].ID = c[b].ID => a = b

\* C15: ByID reports "not found" for an id that no entry of the calibration
\* has; when it reports an entry, the entry has that id; and in a calibration
\* whose entries have distinct IDs, the id of an entry yields that entry's
\* name and MotorCalibration.
C15_ByIDFindsEntry ==
    lookPc = "byId" =>
        /\ (\A name \in DOMAIN calibration : calibration[name].ID # lookupId) =>
              byId = [name |-> "", mc |-> [ID |-> 0, RangeMin |-> 0], ok |-> FALSE]
        /\ byId.ok =>
              /\ byId.name \in DOMAIN calibration
              /\ byId.mc = calibration[byId.name]
              /\ byId.mc.ID = lookupId
        /\ DistinctIDs(calibration) =>
              \A name \in DOMAIN calibration :
                 calibration[name].ID = lookupId =>
                    byId.ok /\ byId.name = name /\ byId.mc = calibration[name]

\* C15 witness: ByID(6) on the calibration of shoulder_pan (1) and gripper (6)
\* returns gripper.
C15_Witness ==
    /\ lookPc = "byId"
    /\ calibration = TwoMotorCalibration
    /\ lookupId = 6
    /\ byId.ok /\ byId.name = "gripper" /\ byId.mc.RangeMin = 700

\* C16: MotorIDs holds one ID per entry named after one of the six motors, the
\* ID of the k-th such motor in the order shoulder_pan, shoulder_lift,
\* elbow_flex, wrist_flex, wrist_roll, gripper at place k; entries under other
\* names add nothing; the standard calibration gives 1, 2, 3, 4, 5, 6.
C16_MotorIDsCanonicalOrder ==
    lookPc = "motorIDs" =>
        LET order == <<"shoulder_pan", "shoulder_lift", "elbow_flex",
                       "wrist_flex", "wrist_roll", "gripper">>
            present == {i \in 1..6 : order[i] \in DOMAIN calibration}
        IN  /\ Len(ids) = Cardinality(present)
            /\ \A i \in present :
                  ids[Cardinality({j \in present : j <= i})] = calibration[order[i]].ID
            /\ calibration = StandardCalibration => ids = <<1, 2, 3, 4, 5, 6>>

\* C16 witness: a calibration with elbow_flex as servo 2, gripper as servo 1 and
\* an entry under another name; MotorIDs is 2, 1.
C16_Witness ==
    /\ lookPc = "motorIDs"
    /\ DOMAIN calibration = {"elbow_flex", "gripper", "aux"}
    /\ calibration["elbow_flex"].ID = 2
    /\ calibration["gripper"].ID = 1
    /\ ids = <<2, 1>>

\* ------------------------------------------------------------------------
\* The teleoperate command

\* func (a *ArmConfig) IsCalibrated() bool { return len(a.Calibration) > 0 }
IsCalibrated(calib) == Cardinality(DOMAIN calib) > 0

\* the calibrations a configuration file can hold for an arm
FileCalibrations == {[name \in D |-> Entry(name, OrderOf(name))] : D \in SUBSET MotorNames}

Ports == {"", "/dev/ttyACM0"}

\* robot.LoadConfig: an error, or the Config of the file
InitCmd ==
    /\ InitController
    /\ followerTorque = FALSE
    /\ leaderTorque = FALSE
    /\ CalOff
    /\ StepOff
    /\ RecOff
    /\ LookOff
    /\ cfg \in [loaded : BOOLEAN, leaderPort : Ports, followerPort : Ports,
                leaderCal : FileCalibrations, followerCal : FileCalibrations]
    /\ cmdPc = "start"
    /\ HzOff

\* TeleoperateCommand.Execute up to teleop.NewController
CmdExecute ==
    /\ cmdPc = "start"
    /\ IF ~cfg.loaded THEN cmdPc' = "exit"
       ELSE IF cfg.leaderPort = "" \/ cfg.followerPort = "" THEN cmdPc' = "exit"
       ELSE IF ~IsCalibrated(cfg.leaderCal) \/ ~IsCalibrated(cfg.followerCal)
            THEN cmdPc' = "exit"
       ELSE cmdPc' \in {"created", "fatal"}
    /\ UNCHANGED <<cfg, ctlVars, calVars, stepVars, recVars, lookVars, hzVars>>

NextCmd == CmdExecute

SpecCmd == InitCmd /\ [][NextCmd]_vars

\* C17: when the teleoperate command has created a controller, the leader's
\* and the follower's calibration each have an entry for all six motors.
C17_ControllerOnlyFromSixMotors ==
    cmdPc = "created" =>
        /\ DOMAIN cfg.leaderCal = MotorNames
        /\ DOMAIN cfg.followerCal = MotorNames

\* ------------------------------------------------------------------------
\* The controller's frequency

HzInputs == {-1, 0, 1}

\* NewController(cfg) for each cfg.Hz, then the controller's life
InitHz ==
    /\ InitController
    /\ followerTorque \in BOOLEAN
    /\ leaderTorque = FALSE
    /\ CalOff
    /\ StepOff
    /\ RecOff
    /\ LookOff
    /\ CmdOff
    /\ cfgHz \in HzInputs
    /\ hz = NewHz(cfgHz)
    /\ ctorPc = "made"

SpecHz == InitHz /\ [][Next]_vars

\* C18: Hz() is 60 when the Hz supplied is not positive and the supplied Hz
\* otherwise, and no step of Start, step, sendState, shutdown, Close or of an
\* observer changes it.
C18_HzFixedAtConstruction ==
    /\ [](hz = IF cfgHz <= 0 THEN 60 ELSE cfgHz)
    /\ [][hz' = hz]_vars

\* C18 witness: the controller made with Hz = -1 has been started, has
\* stepped, has been shut down and closed, and Hz() is 60.
C18_Witness ==
    /\ cfgHz = -1
    /\ hz = 60
    /\ cpc = "done"
    /\ \E p \in Starters : pc[p] = "returned"
    /\ obsLast > 0

\* ------------------------------------------------------------------------
\* A tick whose leader read fails

\* C20: a leader read that fails (as it must on a closed bus) is followed by
\* no follower write: the step hands log its message, so the log channel gains
\* one message or, being full, stays as it is, and goes to sendState with a
\* State whose Error is set and whose Positions are not; nothing enters the
\* state channel before sendState's last step, that step puts in exactly that
\* one State, and the loop is back at its select.
C20_ReadFailureTick ==
    [][\A p \in Starters :
         /\ (pc[p] = "read" /\ pc'[p] # "read" /\ (~leaderOpen \/ pc'[p] # "write")) =>
               /\ pc'[p] = "sendTry"
               /\ pending'[p].err /\ ~pending'[p].pos /\ pending'[p].seq > 0
               /\ Len(stateCh') = Len(stateCh)
               /\ Len(logCh') = (IF Len(logCh) < LogCap THEN Len(logCh) + 1 ELSE LogCap)
         /\ (pc[p] \in SendPcs /\ pending[p].err) =>
               /\ pc'[p] \in SendPcs \cup {"select"}
               /\ (pc'[p] \in SendPcs /\ pc'[p] # pc[p]) =>
                     Len(stateCh') <= Len(stateCh) /\ pending'[p].err
               /\ pc'[p] = "select" =>
                     /\ Len(stateCh') = Len(stateCh) + 1
                     /\ stateCh'[Len(stateCh')].err /\ ~stateCh'[Len(stateCh')].pos
                     /\ pending'[p] = NoState]_vars

\* C20 witness: the only loop has read from the closed leader bus and is at
\* the blocking send of sendState with its error State, the log channel full.
C20_Witness ==
    /\ ~leaderOpen
    /\ pc["s1"] = "sendBlock" /\ pc["s2"] = "idle"
    /\ pending["s1"].err /\ ~pending["s1"].pos
    /\ Len(logCh) = LogCap

\* ------------------------------------------------------------------------
\* Cancellation, shutdown and the start of the loop

\* C23: a Start call whose context is cancelled is never left waiting inside
\* sendState, so it comes back to the select, runs shutdown and returns;
\* while a shutdown is under way no step is in progress; and a Start call
\* returns only from the final log line of shutdown, which follows the attempt
\* to disable the follower.
C23_CancelEndsStart ==
    /\ [](\A p \in Starters : ctxDone /\ pc[p] \in SendPcs => ENABLED SendState(p))
    /\ [](\A p, q \in Starters :
            pc[p] \in {"sdDisable", "sdLog"} => pc[q] \notin {"read", "write"} \cup SendPcs)
    /\ [][\A p \in Starters :
            pc'[p] = "returned" /\ pc[p] # "returned" => pc[p] = "sdLog"]_vars

\* C24: at no time are two steps in progress.
C24_NoOverlappingTicks ==
    Cardinality({p \in Starters : pc[p] \in {"read", "write"} \cup SendPcs}) <= 1

\* C25: while the follower disable of a shutdown is still to be attempted,
\* the controller is running.
C25_RunningUntilDisabled ==
    \A p \in Starters : pc[p] = "sdDisable" => running

\* C26: an accepted Start goes to the leader's disable, from there to the
\* follower's enable, from there to the "started" log line and from there to
\* the loop, whatever the two calls return (on a closed bus they fail); each of
\* these steps can always be taken, and a tick begins only from the loop.
C26_StartTorqueThenLoop ==
    /\ [][\A p \in Starters :
            /\ pc[p] = "idle" /\ pc'[p] # "idle" => pc'[p] \in {"rejected", "disableLeader"}
            /\ pc[p] = "disableLeader" /\ pc'[p] # pc[p] => pc'[p] = "enableFollower"
            /\ pc[p] = "enableFollower" /\ pc'[p] # pc[p] => pc'[p] = "logStarted"
            /\ pc[p] = "logStarted" /\ pc'[p] # pc[p] => pc'[p] = "select"
            /\ pc'[p] = "read" /\ pc[p] # "read" => pc[p] = "select"]_vars
    /\ [](\A p \in Starters :
            /\ pc[p] = "disableLeader" => ENABLED StartDisableLeader(p)
            /\ pc[p] = "enableFollower" => ENABLED StartEnableFollower(p)
            /\ pc[p] = "logStarted" => ENABLED StartLogStarted(p))

\* C26 witness: the follower's bus is open and its torque is off although a
\* Start call, the only one, is in its first tick: the enable failed and the
\* loop was entered.
C26_Witness ==
    /\ pc["s1"] = "read"
    /\ pc["s2"] = "idle"
    /\ cpc = "idle"
    /\ ~ctxDone
    /\ followerOpen
    /\ ~followerTorque
    /\ obsLast = 0 /\ stateCh = <<>>

\* C27: the step in which a Start call is rejected changes nothing but that
\* call's own position: not the running flag, which stays set, not the arms,
\* not the channels, not the position of any other Start call or of Close.
C27_RejectedStartChangesNothing ==
    [][\A p \in Starters :
        pc[p] = "idle" /\ pc'[p] = "rejected" =>
            /\ running /\ running'
            /\ UNCHANGED <<armVars, chanVars, logCh, cpc, ctxDone, closeVars>>
            /\ \A q \in Starters \ {p} : pc'[q] = pc[q]]_vars

\* C27 witness: one Start call is in a step, the other has been rejected.
C27_Witness ==
    /\ pc["s1"] = "write"
    /\ pc["s2"] = "rejected"
    /\ running

\* ------------------------------------------------------------------------
\* The controller's construction

\* NewController(cfg) is called: no bus is open, there is no controller
InitNew ==
    /\ running = FALSE
    /\ stateCh = <<>>
    /\ logCh = <<>>
    /\ pc = [p \in Starters |-> "idle"]
    /\ pending = [p \in Starters |-> NoState]
    /\ cpc = "idle"
    /\ ctxDone = FALSE
    /\ leaderOpen = FALSE
    /\ followerOpen = FALSE
    /\ followerTorque \in BOOLEAN
    /\ leaderTorque = FALSE
    /\ obsLast = 0
    /\ overlapped = FALSE
    /\ closeErrs = FALSE
    /\ closeRet = "none"
    /\ CalOff
    /\ StepOff
    /\ RecOff
    /\ LookOff
    /\ cfg \in [loaded : {TRUE}, leaderPort : Ports, followerPort : Ports,
                leaderCal : {StandardCalibration, TwoMotorCalibration},
                followerCal : {StandardCalibration, TwoMotorCalibration}]
    /\ cmdPc = "off"
    /\ cfgHz \in HzInputs
    /\ hz = 0
    /\ ctorPc = "start"

\* NewController: leader, err := robot.NewArm(...); if err != nil { return nil, ... }
NewLeaderArm ==
    /\ ctorPc = "start"
    /\ \E ok \in Outcomes(cfg.leaderPort # "") :
          /\ leaderOpen' = ok
          /\ ctorPc' = IF ok THEN "leader" ELSE "failedLeader"
    /\ UNCHANGED <<lifeVars, followerOpen, followerTorque, leaderTorque, chanVars, closeVars,
                   pc, logCh,
                   calVars, stepVars, recVars, lookVars, cmdVars, cfgHz, hz>>

\* NewFollowerArm that returns its error and leaves the leader as it is
NewFollowerArmLeaks ==
    /\ ctorPc = "leader"
    /\ \E ok \in Outcomes(cfg.followerPort # "") :
          IF ok
          THEN /\ followerOpen' = TRUE
               /\ hz' = NewHz(cfgHz)
               /\ ctorPc' = "made"
               /\ UNCHANGED leaderOpen
          ELSE /\ ctorPc' = "failedFollower"
               /\ UNCHANGED <<leaderOpen, followerOpen, hz>>
    /\ UNCHANGED <<lifeVars, followerTorque, leaderTorque, chanVars, closeVars, pc, logCh,
                   calVars, stepVars, recVars, lookVars, cmdVars, cfgHz>>

\* NewController: follower, err := robot.NewArm(...); if err != nil {
\* leader.Close(); return nil, ... }; the default of cfg.Hz; return &Controller{...}
NewFollowerArm ==
    /\ ctorPc = "leader"
    /\ \E ok \in Outcomes(cfg.followerPort # "") :
          IF ok
          THEN /\ followerOpen' = TRUE
               /\ hz' = NewHz(cfgHz)
               /\ ctorPc' = "made"
               /\ UNCHANGED leaderOpen
          ELSE /\ leaderOpen' = FALSE
               /\ ctorPc' = "failedFollower"
               /\ UNCHANGED <<followerOpen, hz>>
    /\ UNCHANGED <<lifeVars, followerTorque, leaderTorque, chanVars, closeVars, pc, logCh,
                   calVars, stepVars, recVars, lookVars, cmdVars, cfgHz>>

NextNew ==
    \/ NewLeaderArm
    \/ NewFollowerArm

SpecNew == InitNew /\ [][NextNew]_vars

\* C29: a controller has been returned only with both buses open; when
\* NewController has returned an error no bus is open: after a failed leader
\* open the follower's bus was never opened, after a failed follower open the
\* leader's bus has been closed again; and the follower's bus is opened only
\* while the leader's is open.
C29_ConstructionAllOrNothing ==
    /\ [](ctorPc = "made" => leaderOpen /\ followerOpen)
    /\ [](ctorPc \in {"failedLeader", "failedFollower"} => ~leaderOpen /\ ~followerOpen)
    /\ [](ctorPc \in {"start", "leader"} => ~followerOpen)
    /\ [][followerOpen' /\ ~followerOpen => leaderOpen /\ leaderOpen']_vars
    /\ [][ctorPc = "failedLeader" => ctorPc' = "failedLeader" /\ ~followerOpen']_vars

\* C29 witness: the leader's bus was opened, the follower's open failed, and
\* NewController has returned its error with the leader's bus closed.
C29_Witness ==
    /\ ctorPc = "failedFollower"
    /\ cfg.leaderPort # ""
    /\ ~leaderOpen
    /\ ~followerOpen

\* ------------------------------------------------------------------------
\* What Close returns

\* C30: Close goes on from the leader's Close to the follower's whether or not
\* the leader's failed, so when it has returned both buses have been closed;
\* a Close that fails is kept in errs until Close returns, and Close has
\* returned an error exactly when the Close of at least one arm failed, and nil
\* otherwise.
C30_CloseBothAndReport ==
    /\ [](cpc = "done" =>
            /\ ~leaderOpen
            /\ ~followerOpen
            /\ closeRet = "error" <=> closeErrs
            /\ closeRet = "nil" <=> ~closeErrs)
    /\ [](cpc # "done" => closeRet = "none")
    /\ [][cpc = "closeLeader" /\ cpc' # "closeLeader" =>
            cpc' = "closeFollower" /\ followerOpen' = followerOpen]_vars
    /\ [][closeErrs => closeErrs']_vars

\* C30 witness: the leader's Close has failed, and Close is about to close the
\* follower.
C30_Witness ==
    /\ cpc = "closeFollower"
    /\ closeErrs
    /\ followerOpen

\* ------------------------------------------------------------------------
\* The exit of the teleoperate command

\* Execute: one goroutine calls Start; when the TUI has ended the deferred
\* cancel() runs and then the deferred ctrl.Close(), neither waiting for Start
NextExit ==
    \/ StartCheck("s1")
    \/ StartDisableLeader("s1")
    \/ StartEnableFollower("s1")
    \/ StartLogStarted("s1")
    \/ Tick("s1")
    \/ StepRead("s1")
    \/ StepWrite("s1")
    \/ SendTry("s1")
    \/ SendDrain("s1")
    \/ SendBlock("s1")
    \/ CtxDone("s1")
    \/ ShutdownDisable("s1")
    \/ ShutdownLog("s1")
    \/ Cancel
    \/ ctxDone /\ CloseFlag
    \/ CloseLeader
    \/ CloseFollower
    \/ RecvState
    \/ RecvLog

SpecExit == Init /\ [][NextExit]_vars

\* C39: the follower disable of shutdown is called while the follower's bus
\* is open.
C39_DisableBeforeClose ==
    [][\A p \in Starters :
        pc[p] = "sdDisable" /\ pc'[p] = "sdLog" => followerOpen]_vars

\* ------------------------------------------------------------------------
\* The roles of the two arms

\* the controller of Spec, the leader's torque on or off when it is made
InitRoles ==
    /\ InitController
    /\ followerTorque \in BOOLEAN
    /\ leaderTorque \in BOOLEAN
    /\ CalOff
    /\ LibOff

SpecRoles == InitRoles /\ [][Next]_vars

\* C38: no step turns the leader's torque on, and it changes only in Start's
\* leader disable; the follower's torque is turned on only by Start's follower
\* enable and off only by shutdown's follower disable; a read of positions
\* succeeds only on the leader's open bus; a write of positions can succeed
\* whenever the follower's bus is open, the leader's being open or not, and
\* fails when the follower's bus is closed.
C38_RolesOfTheArms ==
    /\ [][leaderTorque' => leaderTorque]_vars
    /\ [][leaderTorque' # leaderTorque =>
            \E p \in Starters : pc[p] = "disableLeader" /\ pc'[p] = "enableFollower"]_vars
    /\ [][followerTorque' /\ ~followerTorque =>
            \E p \in Starters : pc[p] = "enableFollower" /\ pc'[p] = "logStarted"]_vars
    /\ [][followerTorque /\ ~followerTorque' =>
            \E p \in Starters : pc[p] = "sdDisable" /\ pc'[p] = "sdLog"]_vars
    /\ [][\A p \in Starters : pc[p] = "read" /\ pc'[p] = "write" => leaderOpen]_vars
    /\ [](\A p \in Starters :
            pc[p] = "write" /\ followerOpen => ENABLED (StepWrite(p) /\ logCh' = logCh))
    /\ [][\A p \in Starters :
            pc[p] = "write" /\ pc'[p] = "sendTry" /\ ~followerOpen /\ Len(logCh) < LogCap =>
                Len(logCh') = Len(logCh) + 1]_vars

\* C38 witness: the leader's bus is closed and its torque off, the follower's
\* bus is open and its torque on, and the only loop is about to write.
C38_Witness ==
    /\ pc["s1"] = "write"
    /\ pc["s2"] = "idle"
    /\ ~leaderOpen
    /\ ~leaderTorque
    /\ followerOpen
    /\ followerTorque

\* ------------------------------------------------------------------------
\* What a State holds

\* C40: every State in the channel or on its way into it has either its
\* positions or its error, never both and never neither; the State of a step
\* that got as far as the write has its positions and no error, whether or
\* not the write failed.
C40_PositionsOrError ==
    /\ [](\A i \in 1..Len(stateCh) : stateCh[i].err # stateCh[i].pos)
    /\ [](\A p \in Starters : pc[p] \in SendPcs => pending[p].err # pending[p].pos)
    /\ [][\A p \in Starters :
            pc[p] = "write" /\ pc'[p] = "sendTry" => pending'[p].pos /\ ~pending'[p].err]_vars

\* C40 witness: the observer has received a State, a later State with an error
\* is in the channel, and the next State, with positions, is on its way.
C40_Witness ==
    /\ obsLast > 0
    /\ Len(stateCh) = 1
    /\ stateCh[1].err /\ ~stateCh[1].pos
    /\ \E p \in Starters : pc[p] = "sendTry" /\ pending[p].pos /\ ~pending[p].err

\* ------------------------------------------------------------------------
\* The arms' batched reads and writes

\* the Calibrations a file can give an arm: shoulder_pan and gripper or fewer,
\* shoulder_pan at servo 1, gripper at servo 1 or 2, each with one of the ranges
ArmCalibrations(ranges) ==
    UNION {{c \in [D -> {[ID |-> id, RangeMin |-> r[1], RangeMax |-> r[2]] :
                            id \in {1, 2}, r \in ranges}] :
               ShoulderPan \in D => c[ShoulderPan].ID = 1} :
           D \in SUBSET {ShoulderPan, Gripper}}

\* ReadPositions without the "continue": an id that no motor has gets the zero
\* name and the zero MotorCalibration
ReadPositionsKeepsUnknown(c, rawPositions, fusedBuild) ==
    LET known == {id \in DOMAIN rawPositions : \E n \in DOMAIN c : c[n].ID = id}
        found == {f \in [known -> DOMAIN c] :
                     \A id \in known : f[id] \in {r.name : r \in ByID(c, id)}}
        extra == IF known = DOMAIN rawPositions THEN {} ELSE {""}
    IN  {[name \in {f[id] : id \in known} \cup extra |->
            IF name = "" THEN FZero
            ELSE Normalize(c[name], rawPositions[c[name].ID], fusedBuild)] : f \in found}

\* func (a *Arm) ReadPositions, after a.group.Positions returned rawPositions
\* without error: the maps it can return, one for each way ByID can answer
ReadPositions(c, rawPositions, fusedBuild) ==
    LET known == {id \in DOMAIN rawPositions : \E n \in DOMAIN c : c[n].ID = id}
        found == {f \in [known -> DOMAIN c] :
                     \A id \in known : f[id] \in {r.name : r \in ByID(c, id)}}
    IN  {[name \in {f[id] : id \in known} |->
            Normalize(c[name], rawPositions[c[name].ID], fusedBuild)] : f \in found}

\* WritePositions without the "continue": a name the calibration lacks writes
\* the zero MotorCalibration's position to the zero ID
WritePositionsKeepsUnknown(c, pos) ==
    LET names == DOMAIN pos \cap DOMAIN c
        idsOut == {c[n].ID : n \in names}
        last == {f \in [idsOut -> names] : \A id \in idsOut : c[f[id]].ID = id}
        extra == IF names = DOMAIN pos THEN {} ELSE {0}
    IN  {[id \in idsOut \cup extra |->
            IF id \in idsOut THEN Denormalize(c[f[id]], pos[f[id]]) ELSE 0] : f \in last}

\* func (a *Arm) WritePositions: the PositionMaps it can hand to SetPositions;
\* of the names that share an ID, the one the range over the map visits last
\* leaves its value
WritePositions(c, pos) ==
    LET names == DOMAIN pos \cap DOMAIN c
        idsOut == {c[n].ID : n \in names}
        last == {f \in [idsOut -> names] : \A id \in idsOut : c[f[id]].ID = id}
    IN  {[id \in idsOut |-> Denormalize(c[f[id]], pos[f[id]])] : f \in last}

\* a.group.Positions has returned to the leader's ReadPositions: an error, or
\* raw positions of servos 1 and 2 and of servo 3, which no motor has
InitArm ==
    /\ InitController
    /\ followerTorque = FALSE
    /\ leaderTorque = FALSE
    /\ cal = [RangeMin |-> 0, RangeMax |-> 0]
    /\ raw = 0
    /\ fused \in BOOLEAN
    /\ norm = FZero
    /\ back = 0
    /\ calPc = "off"
    /\ positions = <<>>
    /\ mirror \in BOOLEAN
    /\ followerPositions = <<>>
    /\ stepPc = "bus"
    /\ written = <<>>
    /\ published = [any |-> FALSE, err |-> FALSE, positions |-> <<>>]
    /\ stepIo = [reads |-> 1, writes |-> 0, logs |-> 0, pubs |-> 0, wrote |-> "none",
                 got |-> <<>>]
    /\ \/ busRead = [err |-> TRUE, raw |-> <<>>]
       \/ \E D \in SUBSET {1, 2, 3} :
             \E rp \in [D -> {1, 2}] :
                /\ 2 \in D => rp[2] = 2
                /\ 3 \in D => rp[3] = 1
                /\ busRead = [err |-> FALSE, raw |-> rp]
    /\ busWrites = <<>>
    /\ RecOff
    /\ LookOff
    /\ cfg \in [loaded : {TRUE}, leaderPort : {"/dev/ttyACM0"}, followerPort : {"/dev/ttyACM1"},
                leaderCal : ArmCalibrations({<<0, 3>>, <<2, 2>>}),
                followerCal : ArmCalibrations({<<0, 3>>, <<2, 2>>, <<7, 1>>})]
    /\ cmdPc = "created"
    /\ HzOff

\* positions, err := c.leader.ReadPositions(ctx), from the bus's answer on
ArmRead ==
    /\ stepPc = "bus"
    /\ IF busRead.err
       THEN /\ positions' = <<>>
            /\ stepPc' = "readFailed"
       ELSE /\ positions' \in ReadPositions(cfg.leaderCal, busRead.raw, fused)
            /\ stepPc' = "read"
    /\ UNCHANGED <<busRead, busWrites, mirror, followerPositions, written, published, stepIo,
                   ctlVars, calVars, recVars, lookVars, cmdVars, hzVars>>

\* c.follower.WritePositions(ctx, followerPositions), SetPositions failing or not
ArmWrite ==
    /\ stepPc = "mirrored"
    /\ \E w \in WritePositions(cfg.followerCal, followerPositions), ok \in BOOLEAN :
          /\ busWrites' = Append(busWrites, w)
          /\ stepPc' = IF ok THEN "armWritten" ELSE "armWriteFailed"
    /\ written' = followerPositions
    /\ UNCHANGED <<positions, busRead, mirror, followerPositions, published, stepIo,
                   ctlVars, calVars, recVars, lookVars, cmdVars, hzVars>>

NextArm == ArmRead \/ StepMirror \/ ArmWrite

SpecArm == InitArm /\ [][NextArm]_vars

\* C31: after a bus read without error, ReadPositions returns one value for
\* each returned servo ID that a motor of the calibration has and none for any
\* other ID: each value is under the name of a motor with that ID and is
\* Normalize, with that motor's calibration, of the raw position the bus
\* returned for the ID; after a bus read error it returns the error and no
\* positions.
C31_ReadPositions ==
    LET lc == cfg.leaderCal
        rp == busRead.raw
        known == {id \in DOMAIN rp : \E n \in DOMAIN lc : lc[n].ID = id}
    IN  /\ stepPc = "readFailed" => busRead.err /\ positions = <<>>
        /\ stepPc = "read" =>
              /\ ~busRead.err
              /\ Cardinality(DOMAIN positions) = Cardinality(known)
              /\ \A id \in known : \E name \in DOMAIN positions : lc[name].ID = id
              /\ \A name \in DOMAIN positions :
                    /\ name \in DOMAIN lc
                    /\ lc[name].ID \in DOMAIN rp
                    /\ positions[name] = Normalize(lc[name], rp[lc[name].ID], fused)

\* C31 witness: the bus returned servos 1, 2 and 3, the calibration has
\* shoulder_pan alone, at servo 1 with range 0..3, and ReadPositions returned
\* shoulder_pan alone, below zero for the raw position 1.
C31_Witness ==
    /\ stepPc = "read"
    /\ DOMAIN busRead.raw = {1, 2, 3}
    /\ busRead.raw[1] = 1
    /\ cfg.leaderCal = [name \in {ShoulderPan} |-> [ID |-> 1, RangeMin |-> 0, RangeMax |-> 3]]
    /\ DOMAIN positions = {ShoulderPan}
    /\ XSign(positions[ShoulderPan]) < 0

C37_TargetsInRange ==
    stepPc \in {"armWritten", "armWriteFailed"} =>
        LET lc == cfg.leaderCal
            fc == cfg.followerCal
        IN  \A name \in DOMAIN positions \cap DOMAIN fc :
               LET r == busRead.raw[lc[name].ID]
               IN  (lc[name].RangeMin <= r /\ r <= lc[name].RangeMax) =>
                      /\ fc[name].RangeMin <= busWrites[1][fc[name].ID]
                      /\ busWrites[1][fc[name].ID] <= fc[name].RangeMax

====
